---- MODULE Spec2Model ----
(***************************************************************************)
(* Verification model of the xml-to-sql compilation pipeline:              *)
(*   - the graph resolver and renderer driver (renderer.py),               *)
(*   - the validator passes the driver runs (validator.py),                *)
(*   - the HANA parameter-elimination pass (function_translator.py),       *)
(*   - the aggregation renderer (renderer.py).                             *)
(* Strings are modelled as sequences of tokens; every token stands for a   *)
(* fixed piece of text, so the text operations of the source (prefix       *)
(* tests, slicing, regular expressions) are computed on the sequences.     *)
(***************************************************************************)
EXTENDS Integers, Sequences, FiniteSets, TLC

VARIABLES
  pc,          \* position of the render driver / of the pure-function harness
  scenario,    \* the Scenario IR handed to render_scenario
  ordered,     \* ordered_nodes, the result of _topological_sort
  ctes,        \* the rendered CTEs, in emission order
  cte_aliases, \* ctx.cte_aliases, an insertion-ordered dict: <<key, alias>> pairs
  warnings,    \* ctx.warnings
  outcome,     \* what render_scenario / convert_xml_to_sql hands to the caller
  formula,     \* the formula handed to _remove_parameter_clauses_hana
  result,      \* its local variable result
  iteration,   \* the rounds the current loop of the function has made
  outputs,     \* what the function returned: first call, then the call on that
  aggNode,     \* the AggregationNode handed to _render_aggregation
  select_items,  \* the select list _render_aggregation built (the inner one)
  group_by_cols, \* the columns of its GROUP BY clause
  outer_select,  \* the select list of the wrapping query, <<>> when unwrapped
  filters, \* the predicates handed to _render_filters
  where_clause, \* the text _render_filters returned
  op, \* the operator handed to _negate_operator
  negated, \* what _negate_operator returned: for the operator, then for that result
  reference, \* the reference string handed to _clean_ref
  cleaned, \* what scenario_parser._clean_ref returned: for the reference, then for that result
  cv_cleaned, \* the same for column_view_parser._clean_ref
  sql, \* the statement handed to auto_correct_sql
  all_issues, \* the codes of the issues of its validation_result, errors first
  correction_result, \* the CorrectionResult it returned
  render_ctx, \* the schema settings and database mode of the RenderContext
  data_source, \* the DataSource the input of _render_from names
  mapped_package, \* what get_package returns for its object name, None when unknown
  table_ref, \* the reference _render_from returned
  catalog_cache, \* the cache lru_cache keeps for each catalog getter, None while empty
  load_calls, \* how often the body of each getter has run
  workers, \* the compilations running in worker threads: where each is in its catalog request and what it was handed
  xml_root, \* the root element handed to the parser: its dialect and its node elements
  node_index, \* how many node elements the loop over them has taken
  parsed_nodes, \* scenario.nodes, an insertion-ordered dict: <<node_id, element index>> pairs
  parse_outcome, \* what parse_scenario hands to the caller
  in_text, \* the formula handed to _convert_in_function_to_operator
  in_result, \* its local variable result
  search_start, \* where its next search for IN( starts, counted in characters
  in_iteration, \* the rounds its loop has made
  in_outputs, \* what it returned: for the formula, then for that result
  fn_args, \* the arguments the call in the formula was written with
  fn_formula, \* the formula handed to _rewrite_function_calls
  fn_pos, \* its local variable pos, counted in characters
  fn_parts, \* its local variable parts
  fn_extracted, \* what _extract_function_arguments returned, call by call
  fn_result, \* the text _rewrite_function_calls returned
  proj_node, \* the projection Node handed to _render_projection: its mappings and calculated attributes
  calc_done, \* how many calculated attributes its loop over them has rendered
  proj_columns, \* its local variable columns: expression and name of each select item
  calc_column_map, \* its local variable calc_column_map: <<NAME, rendered expression>> pairs
  union_node, \* the UnionNode handed to _render_union: its inputs and mappings
  union_done, \* how many inputs its loop over them has rendered
  union_queries \* its local variable union_queries: select list and FROM item of each branch

renderVars == <<scenario, ordered, ctes, cte_aliases, warnings, outcome>>

elimVars == <<formula, result, iteration, outputs>>

aggVars == <<aggNode, select_items, group_by_cols, outer_select>>

filterVars == <<filters, where_clause, op, negated>>

cleanVars == <<reference, cleaned, cv_cleaned>>

corrVars == <<sql, all_issues, correction_result>>

fromVars == <<render_ctx, data_source, mapped_package, table_ref>>

catalogVars == <<catalog_cache, load_calls, workers>>

parseVars == <<xml_root, node_index, parsed_nodes, parse_outcome>>

inVars == <<in_text, in_result, search_start, in_iteration, in_outputs>>

fnVars == <<fn_args, fn_formula, fn_pos, fn_parts, fn_extracted, fn_result>>

projVars == <<proj_node, calc_done, proj_columns, calc_column_map>>

unionVars == <<union_node, union_done, union_queries>>

vars == <<pc, renderVars, elimVars, aggVars, filterVars, cleanVars, corrVars, fromVars, catalogVars, parseVars, inVars, fnVars, projVars, unionVars>>

\* unionVars while another part of the pipeline is exercised
UnionIdle == union_node = [kind |-> "none"] /\ union_done = 0 /\ union_queries = <<>>

\* projVars while another part of the pipeline is exercised
ProjIdle == proj_node = [kind |-> "none"] /\ calc_done = 0 /\ proj_columns = <<>> /\ calc_column_map = <<>>

\* fnVars while another part of the pipeline is exercised
FnIdle == fn_args = <<>> /\ fn_formula = <<>> /\ fn_pos = 0 /\ fn_parts = <<>> /\ fn_extracted = <<>> /\ fn_result = <<>>

\* inVars while another part of the pipeline is exercised
InIdle == in_text = <<>> /\ in_result = <<>> /\ search_start = 0 /\ in_iteration = 0 /\ in_outputs = <<>>

\* parseVars while another part of the pipeline is exercised
ParseIdle == xml_root = [kind |-> "none"] /\ node_index = 0 /\ parsed_nodes = <<>> /\ parse_outcome = [kind |-> "none"]

\* catalogVars while another part of the pipeline is exercised
CatalogIdle == catalog_cache = <<>> /\ load_calls = <<>> /\ workers = <<>>

\* fromVars while another part of the pipeline is exercised
FromIdle == render_ctx = [kind |-> "none"] /\ data_source = [kind |-> "none"] /\ mapped_package = <<>> /\ table_ref = <<>>

\* corrVars while another part of the pipeline is exercised
CorrectorIdle == sql = <<>> /\ all_issues = <<>> /\ correction_result = [kind |-> "none"]

\* cleanVars while another part of the pipeline is exercised
CleanIdle == reference = <<>> /\ cleaned = <<>> /\ cv_cleaned = <<>>

\* filterVars while another part of the pipeline is exercised
FiltersIdle == filters = <<>> /\ where_clause = <<>> /\ op = <<>> /\ negated = <<>>

\* ------------------------------------------------------------------------
\* Bounds of the model
\* ------------------------------------------------------------------------
\* Total number of input references over all nodes of a scenario.
MaxEdges == 2

\* ------------------------------------------------------------------------
\* Sequence helpers
\* ------------------------------------------------------------------------
StartsWith(s, p) == Len(s) >= Len(p) /\ SubSeq(s, 1, Len(p)) = p

EndsWith(s, p) == Len(s) >= Len(p) /\ SubSeq(s, Len(s) - Len(p) + 1, Len(s)) = p

Drop(s, n) == SubSeq(s, n + 1, Len(s))

Take(s, n) == SubSeq(s, 1, n)

Range(s) == {s[i] : i \in 1..Len(s)}

Perms(S) == {p \in [1..Cardinality(S) -> S] : \A i, j \in 1..Cardinality(S) : p[i] = p[j] => i = j}

RECURSIVE Flatten(_)
Flatten(ss) == IF ss = <<>> THEN <<>> ELSE Head(ss) \o Flatten(Tail(ss))

None == <<>>

\* ------------------------------------------------------------------------
\* Reference cleaning (scenario_parser._clean_ref and the renderer's extra
\* digit-prefix strip)
\* ------------------------------------------------------------------------
IsSpace(t) == t = " "

Digits == {"0", "1", "2", "3", "4", "5", "6", "7", "8", "9"}

IsDigit(t) == t \in Digits

RECURSIVE LStrip(_)
LStrip(s) == IF s # <<>> /\ IsSpace(Head(s)) THEN LStrip(Tail(s)) ELSE s

RECURSIVE RStrip(_)
RStrip(s) == IF s # <<>> /\ IsSpace(s[Len(s)]) THEN RStrip(Take(s, Len(s) - 1)) ELSE s

Strip(s) == RStrip(LStrip(s))

\* text.find(t, from): least 1-based position >= from holding t, 0 when none
Find(s, t, from) ==
  IF \E i \in from..Len(s) : s[i] = t
  THEN CHOOSE i \in from..Len(s) : s[i] = t /\ \A j \in from..(i - 1) : s[j] # t
  ELSE 0

\* a cleaning that also drops the first path segment of a reference without
\* a prefix
_clean_ref_DropsFirstSegment(value) ==
  LET text == Strip(value)
      first_slash == Find(text, "/", 1)
  IN IF StartsWith(text, <<"#", "/", "/">>) THEN Drop(text, 3)
     ELSE IF StartsWith(text, <<"#", "/">>) THEN Drop(text, 2)
     ELSE IF StartsWith(text, <<"#">>) THEN Drop(text, 1)
     ELSE IF first_slash > 0 THEN Drop(text, first_slash)
     ELSE text

\* scenario_parser._clean_ref
_clean_ref(value) ==
  LET text == Strip(value)
      second_slash == Find(text, "/", 3)
  IN IF StartsWith(text, <<"#", "/", "/">>) THEN Drop(text, 3)
     ELSE IF StartsWith(text, <<"#", "/">>)
          THEN IF second_slash > 0 THEN Drop(text, second_slash) ELSE Drop(text, 2)
     ELSE IF StartsWith(text, <<"#">>) THEN Drop(text, 1)
     ELSE text

\* column_view_parser._clean_ref: no search for a second slash
cv_clean_ref(value) ==
  LET text == Strip(value)
  IN IF StartsWith(text, <<"#", "/", "/">>) THEN Drop(text, 3)
     ELSE IF StartsWith(text, <<"#", "/">>) THEN Drop(text, 2)
     ELSE IF StartsWith(text, <<"#">>) THEN Drop(text, 1)
     ELSE text

\* re.sub(r'^\d+/', '', cleaned)
RECURSIVE DigitRun(_)
DigitRun(s) == IF s # <<>> /\ IsDigit(Head(s)) THEN 1 + DigitRun(Tail(s)) ELSE 0

StripDigitPrefix(s) ==
  LET n == DigitRun(s)
  IN IF n >= 1 /\ Len(s) > n /\ s[n + 1] = "/" THEN Drop(s, n + 1) ELSE s

\* the cleaning _topological_sort and get_cte_alias apply to a reference
CleanInput(ref) == StripDigitPrefix(_clean_ref(ref))

\* str.lstrip("#")
RECURSIVE LStripHash(_)
LStripHash(s) == IF s # <<>> /\ Head(s) = "#" THEN LStripHash(Tail(s)) ELSE s

LowerLetters == <<"a", "b", "c", "d", "e", "f", "g", "h", "i", "j", "k", "l", "m",
                  "n", "o", "p", "q", "r", "s", "t", "u", "v", "w", "x", "y", "z">>

UpperLetters == <<"A", "B", "C", "D", "E", "F", "G", "H", "I", "J", "K", "L", "M",
                  "N", "O", "P", "Q", "R", "S", "T", "U", "V", "W", "X", "Y", "Z">>

\* the letters and the name tokens, with their upper-case spellings
CasePairs ==
  {<<LowerLetters[i], UpperLetters[i]>> : i \in 1..Len(LowerLetters)}
    \cup {<<"n1", "N1">>, <<"n2", "N2">>, <<"d1", "D1">>, <<"final", "FINAL">>,
          <<"_synthetic_proj_t1", "_SYNTHETIC_PROJ_T1">>, <<"_synthetic_proj_t2", "_SYNTHETIC_PROJ_T2">>}

\* str.lower() / str.upper() on one token
Lower(t) == IF \E p \in CasePairs : p[2] = t THEN (CHOOSE p \in CasePairs : p[2] = t)[1] ELSE t

Upper(t) == IF \E p \in CasePairs : p[1] = t THEN (CHOOSE p \in CasePairs : p[1] = t)[2] ELSE t

\* cleaned.lower().replace(" ", "_").replace("/", "_")
Normalize(s) == [i \in 1..Len(s) |-> IF s[i] \in {" ", "/"} THEN "_" ELSE Lower(s[i])]

UpperSeq(s) == [i \in 1..Len(s) |-> Upper(s[i])]

\* ------------------------------------------------------------------------
\* The Scenario IR (models.py) within the bounds of the model
\* ------------------------------------------------------------------------
DsId == <<"d1">>

NodeIdLists == {<<>>, << <<"n1">> >>, << <<"n1">>, <<"n2">> >>, << <<"n1">>, <<"N1">> >>}

\* what a reference may name: the data source, the nodes, an id nothing defines
Targets(ids) == {DsId, <<"x">>} \cup Range(ids)

\* the marker a document leaves in front of its references: none, or the
\* numeric segment index the column-view parser's _clean_ref keeps ("0/name")
Styles == {<<>>, <<"0", "/">>}

\* a node's kind and, for a JoinNode, the number of its join conditions
Kinds ==
  {[kind |-> "PROJECTION", conditions |-> 0],
   [kind |-> "JOIN", conditions |-> 0],
   [kind |-> "JOIN", conditions |-> 1]}

InputLists(ids, style) == UNION {[1..k -> {style \o t : t \in Targets(ids)}] : k \in 0..MaxEdges}

RECURSIVE SumLen(_, _)
SumLen(f, ids) == IF ids = <<>> THEN 0 ELSE Len(f[Head(ids)]) + SumLen(f, Tail(ids))

\* a scenario without nodes may also lack the data source
ScenariosWith(ids, st) ==
  {[data_sources |-> ds, node_ids |-> ids, inputs |-> inp, kind |-> k, base_node_id |-> b] :
     ds \in IF ids = <<>> THEN {{}, {DsId}} ELSE {{DsId}},
     inp \in {f \in [Range(ids) -> InputLists(ids, st)] : SumLen(f, ids) <= MaxEdges},
     k \in [Range(ids) -> Kinds],
     b \in {None, <<"d1">>, <<"n1">>, <<"x">>}}

Scenarios == UNION {ScenariosWith(ids, st) : ids \in NodeIdLists, st \in Styles}

Nodes(s) == Range(s.node_ids)

\* all_ids of _topological_sort
AllIds(s) == s.data_sources \cup Nodes(s)

\* ------------------------------------------------------------------------
\* _topological_sort
\* ------------------------------------------------------------------------
RECURSIVE CountIn(_, _)
CountIn(inputs, ids) ==
  IF inputs = <<>> THEN 0
  ELSE (IF CleanInput(Head(inputs)) \in ids THEN 1 ELSE 0) + CountIn(Tail(inputs), ids)

\* in_degree when only the inputs that name a data source are counted
InDegree_DataSourcesOnly(s, n) ==
  IF n \in s.data_sources THEN 0
  ELSE IF n \in Nodes(s) THEN CountIn(s.inputs[n], s.data_sources) ELSE 0

\* in_degree after the two loops that fill it (lines 311-329)
InDegree(s, n) ==
  IF n \in s.data_sources THEN 0
  ELSE IF n \in Nodes(s) THEN CountIn(s.inputs[n], AllIds(s)) ELSE 0

RECURSIVE DependentsOf(_, _, _)
\* the entries one node's inputs add to graph[c]
DependentsOf(inputs, n, c) ==
  IF inputs = <<>> THEN <<>>
  ELSE (IF CleanInput(Head(inputs)) = c THEN <<n>> ELSE <<>>) \o DependentsOf(Tail(inputs), n, c)

RECURSIVE GraphOf(_, _, _)
\* graph[c]: the dependents of c, in node order then input order
GraphOf(s, ids, c) ==
  IF ids = <<>> \/ c \notin AllIds(s) THEN <<>>
  ELSE DependentsOf(s.inputs[Head(ids)], Head(ids), c) \o GraphOf(s, Tail(ids), c)

RECURSIVE Visit(_, _, _)
\* the inner for loop of the while (lines 337-340): <<in_degree, queue>>
Visit(deps, indeg, queue) ==
  IF deps = <<>> THEN <<indeg, queue>>
  ELSE LET d == Head(deps)
           indeg2 == [indeg EXCEPT ![d] = @ - 1]
       IN Visit(Tail(deps), indeg2, IF indeg2[d] = 0 THEN Append(queue, d) ELSE queue)

RECURSIVE KahnLoop(_, _, _, _)
\* the while loop (lines 334-340)
KahnLoop(s, queue, res, indeg) ==
  IF queue = <<>> THEN res
  ELSE LET current == Head(queue)
           v == Visit(GraphOf(s, s.node_ids, current), indeg, Tail(queue))
       IN KahnLoop(s, v[2], Append(res, current), v[1])

\* a sort that returns only the ids the loop consumed
_topological_sort_ConsumedOnly(s) ==
  LET indeg == [n \in AllIds(s) |-> InDegree(s, n)]
      zero == {n \in AllIds(s) : indeg[n] = 0}
  IN {KahnLoop(s, q, <<>>, indeg) : q \in Perms(zero)}

\* every list _topological_sort can return: the iteration order of the set
\* all_ids (initial queue) and of the set missing (remainder) is not fixed
_topological_sort(s) ==
  LET indeg == [n \in AllIds(s) |-> InDegree(s, n)]
      zero == {n \in AllIds(s) : indeg[n] = 0}
  IN UNION {LET res == KahnLoop(s, q, <<>>, indeg)
                missing == AllIds(s) \ Range(res)
            IN IF Len(res) < Cardinality(AllIds(s))
               THEN {res \o m : m \in Perms(missing)}
               ELSE {res} : q \in Perms(zero)}

\* ------------------------------------------------------------------------
\* RenderContext: the alias table (an insertion-ordered dict)
\* ------------------------------------------------------------------------
HasKey(al, k) == \E i \in 1..Len(al) : al[i][1] = k

Get(al, k) == al[CHOOSE i \in 1..Len(al) : al[i][1] = k][2]

Keys(al) == [i \in 1..Len(al) |-> al[i][1]]

Values(al) == [i \in 1..Len(al) |-> al[i][2]]

\* dict assignment: a new key goes last, an old key keeps its place
Put(al, k, v) ==
  IF HasKey(al, k) THEN [i \in 1..Len(al) |-> IF al[i][1] = k THEN <<k, v>> ELSE al[i]]
  ELSE Append(al, <<k, v>>)

\* RenderContext.get_cte_alias: the table after the call
get_cte_alias(al, node_id) ==
  IF HasKey(al, node_id) THEN al ELSE Append(al, <<node_id, Normalize(CleanInput(node_id))>>)

AliasOf(al, node_id) == Get(get_cte_alias(al, node_id), node_id)

\* _render_from (default Snowflake mode): the FROM item and the alias table
_render_from(s, al, input_id) ==
  IF input_id \in s.data_sources
  THEN [from |-> [kind |-> "table", name |-> input_id], al |-> al]
  ELSE [from |-> [kind |-> "cte", name |-> AliasOf(al, input_id)], al |-> get_cte_alias(al, input_id)]

PlaceholderBody == [froms |-> <<>>, placeholder |-> TRUE, cartesian |-> FALSE]

\* _render_projection, as far as inputs, FROM clause and warnings go
_render_projection(s, al, w, n) ==
  IF s.inputs[n] = <<>>
  THEN [body |-> PlaceholderBody, al |-> al, w |-> Append(w, <<"NO_INPUTS", n>>)]
  ELSE LET f == _render_from(s, al, LStripHash(s.inputs[n][1]))
       IN [body |-> [froms |-> <<f.from>>, placeholder |-> FALSE, cartesian |-> FALSE],
           al |-> f.al, w |-> w]

\* _render_join, as far as inputs, FROM/JOIN clauses, ON clause and warnings go
_render_join(s, al, w, n) ==
  IF Len(s.inputs[n]) < 2
  THEN [body |-> PlaceholderBody, al |-> al, w |-> Append(w, <<"FEWER_THAN_2_INPUTS", n>>)]
  ELSE LET left_id == LStripHash(s.inputs[n][1])
           right_id == LStripHash(s.inputs[n][2])
           lf == _render_from(s, al, left_id)
           rf == _render_from(s, lf.al, right_id)
           al2 == get_cte_alias(get_cte_alias(rf.al, left_id), right_id)
           nocond == s.kind[n].conditions = 0
       IN [body |-> [froms |-> <<lf.from, rf.from>>, placeholder |-> FALSE, cartesian |-> nocond],
           al |-> al2,
           w |-> IF nocond THEN Append(w, <<"CARTESIAN", n>>) ELSE w]

\* _render_node
_render_node(s, al, w, n) ==
  IF s.kind[n].kind = "PROJECTION" THEN _render_projection(s, al, w, n)
  ELSE _render_join(s, al, w, n)

RECURSIVE RenderLoop(_, _, _, _, _)
\* the for loop of render_scenario (lines 149-159)
RenderLoop(s, ord, cs, al, w) ==
  IF ord = <<>> THEN [ctes |-> cs, al |-> al, w |-> w]
  ELSE LET node_id == Head(ord)
       IN IF node_id \in s.data_sources THEN RenderLoop(s, Tail(ord), cs, al, w)
          ELSE IF node_id \notin Nodes(s)
               THEN RenderLoop(s, Tail(ord), cs, al, Append(w, <<"NOT_FOUND", node_id>>))
          ELSE LET r == _render_node(s, al, w, node_id)
                   al2 == get_cte_alias(r.al, node_id)
               IN RenderLoop(s, Tail(ord),
                             Append(cs, [alias |-> Get(al2, node_id), node |-> node_id, body |-> r.body]),
                             al2, r.w)

\* ------------------------------------------------------------------------
\* _find_final_node
\* ------------------------------------------------------------------------
\* referenced: every input with its leading '#' characters stripped
Referenced(s) == UNION {{LStripHash(s.inputs[n][i]) : i \in 1..Len(s.inputs[n])} : n \in Nodes(s)}

RECURSIVE LastUnreferenced(_, _, _)
\* the loop over reversed(ordered) (lines 363-365); None when it finds nothing
LastUnreferenced(s, ord, referenced) ==
  IF ord = <<>> THEN None
  ELSE LET node_id == ord[Len(ord)]
       IN IF node_id \notin referenced /\ node_id \in Nodes(s) THEN node_id
          ELSE LastUnreferenced(s, Take(ord, Len(ord) - 1), referenced)

_find_final_node(s, ord) ==
  IF ord = <<>> THEN None
  ELSE IF s.base_node_id # None THEN s.base_node_id
  ELSE LET found == LastUnreferenced(s, ord, Referenced(s))
       IN IF found # None THEN found ELSE ord[Len(ord)]

\* ------------------------------------------------------------------------
\* The validator passes (validator.py), on the parts of the statement the
\* model holds: the WITH list, the FROM/JOIN items and the alias table
\* ------------------------------------------------------------------------
\* the data source's schema and object name, as rendered in a table reference
SchemaName == <<"S">>

ObjectName == <<"T">>

\* re.findall(r"(\w+)\s+AS\s*\(", sql), upper-cased: the names of the WITH list
CteNames(cs) == [i \in 1..Len(cs) |-> UpperSeq(cs[i].alias)]

\* the name FROM\s+(\w+) / JOIN\s+(\w+) captures from a FROM item
RefName(f) == IF f.kind = "table" THEN SchemaName ELSE UpperSeq(f.name)

FromNames(cs, final_from) ==
  UNION {{RefName(cs[i].body.froms[j]) : j \in 1..Len(cs[i].body.froms)} : i \in 1..Len(cs)}
    \cup (IF final_from = None THEN {} ELSE {RefName(final_from)})

RECURSIVE DuplicateErrors(_, _)
\* the duplicate-name loop of validate_sql_structure (lines 136-143)
DuplicateErrors(names, seen) ==
  IF names = <<>> THEN <<>>
  ELSE (IF Head(names) \in seen THEN << <<"DUPLICATE_CTE", Head(names)>> >> ELSE <<>>)
         \o DuplicateErrors(Tail(names), seen \cup {Head(names)})

\* validate_sql_structure: the statement always holds a SELECT, and its
\* parentheses come from the renderer's own templates
validate_sql_structure(cs) ==
  [errors |-> IF cs # <<>> THEN DuplicateErrors(CteNames(cs), {}) ELSE <<>>,
   warnings |-> {}, info |-> {}]

RECURSIVE MissingNodeErrors(_, _)
\* the loop over ctx.cte_aliases.keys() (lines 184-186)
MissingNodeErrors(s, keys) ==
  IF keys = <<>> THEN <<>>
  ELSE (IF Head(keys) \notin Nodes(s) /\ Head(keys) \notin s.data_sources
        THEN << <<"MISSING_NODE", Head(keys)>> >> ELSE <<>>)
         \o MissingNodeErrors(s, Tail(keys))

\* the final-node search of validate_query_completeness (lines 221-236)
HasUnreferencedNode(s) ==
  \E n \in Nodes(s) : \A m \in Nodes(s) : n \notin Range(s.inputs[m])

\* the statement opens with a comment that lists ctx.warnings, and the
\* FROM/JOIN patterns match there as well: "Join <id> has fewer than 2 inputs"
\* and "Join <id> creates cartesian product (no join conditions)" name the id,
\* and the second one the word CONDITIONS
HeaderNames(s, cs) ==
  UNION {(IF cs[i].node # None /\ s.kind[cs[i].node].kind = "JOIN"
             /\ (cs[i].body.placeholder \/ cs[i].body.cartesian)
          THEN {UpperSeq(cs[i].node)} ELSE {})
         \cup (IF cs[i].body.cartesian THEN {<<"C", "O", "N", "D", "I", "T", "I", "O", "N", "S">>} ELSE {}) :
         i \in 1..Len(cs)}

validate_query_completeness(s, cs, al, final_from) ==
  LET all_cte_names == Range(CteNames(cs)) \cup {UpperSeq(v) : v \in Range(Values(al))}
      undefined == {r \in FromNames(cs, final_from) \cup HeaderNames(s, cs) :
                      r \notin all_cte_names /\ ~(s.data_sources # {} /\ ObjectName = r)}
  IN [errors |-> MissingNodeErrors(s, Keys(al)),
      warnings |-> {<<"UNDEFINED_CTE_REFERENCE", r>> : r \in undefined}
                     \cup (IF Nodes(s) # {} /\ ~HasUnreferencedNode(s) THEN {<<"NO_FINAL_NODE">>} ELSE {}),
      info |-> {}]

\* validate_performance: the cartesian-join and SELECT * / WHERE checks
validate_performance(s, cs) ==
  [errors |-> <<>>,
   warnings |-> IF \E i \in 1..Len(cs) : cs[i].body.cartesian THEN {<<"CARTESIAN_PRODUCT">>} ELSE {},
   info |-> {<<"SELECT_STAR_USAGE">>, <<"MISSING_WHERE_CLAUSE">>}]

\* the CTE-count ceiling of validate_snowflake_specific (line 458)
SnowflakeCteLimit == 100

\* the DDL keyword check (lines 529-538) finds CREATE in the header comment
\* of a statement that warns "... creates cartesian product ..."
validate_snowflake_specific(cs) ==
  [errors |-> IF Len(cs) > SnowflakeCteLimit THEN << <<"CTE_COUNT_EXCEEDED">> >> ELSE <<>>,
   warnings |-> IF \E i \in 1..Len(cs) : cs[i].body.cartesian THEN {<<"MIXED_STATEMENT_TYPES">>} ELSE {},
   info |-> {<<"UNQUALIFIED_TABLE_REFERENCE">>}]

\* analyze_query_complexity only warns or informs, above thresholds the
\* bounded scenarios stay below
analyze_query_complexity(cs) == [errors |-> <<>>, warnings |-> {}, info |-> {}]

\* ------------------------------------------------------------------------
\* render_scenario after the node loop (lines 161-301)
\* ------------------------------------------------------------------------
PassNames == <<"structure", "completeness", "performance", "snowflake", "complexity">>

\* the five results, in the order of all_results (lines 278-285)
RunPasses(s, cs, al, final_from) ==
  <<validate_sql_structure(cs),
    validate_query_completeness(s, cs, al, final_from),
    validate_performance(s, cs),
    validate_snowflake_specific(cs),
    analyze_query_complexity(cs)>>

\* all_errors cut down to the errors of the first pass that reported any
CollectErrors_FirstFailingPass(results) ==
  IF \E i \in 1..Len(results) : results[i].errors # <<>>
  THEN results[CHOOSE i \in 1..Len(results) :
                 results[i].errors # <<>> /\ \A j \in 1..(i - 1) : results[j].errors = <<>>].errors
  ELSE <<>>

\* all_errors (lines 286-290)
CollectErrors(results) == Flatten([i \in 1..Len(results) |-> results[i].errors])

CollectAdvice(results) ==
  UNION {{<<"warning", x>> : x \in results[i].warnings} \cup {<<"info", x>> : x \in results[i].info} :
           i \in 1..Len(results)}

FinalPlaceholderCte ==
  [alias |-> <<"final">>, node |-> None, body |-> PlaceholderBody]

\* render_scenario returns the statement (and the warnings)
Returned(cs, al, w, final_node_id, final_from, advice) ==
  [ctes |-> cs, al |-> al, w |-> w,
   outcome |-> [kind |-> "sql", errors |-> <<>>, passes |-> <<>>,
                final_node_id |-> final_node_id, final_from |-> final_from,
                advice |-> advice, reported |-> <<>>]]

\* render_scenario raises ValueError("SQL validation failed: ...")
Raised(cs, al, w, final_node_id, final_from, errors, passes) ==
  [ctes |-> cs, al |-> al, w |-> w,
   outcome |-> [kind |-> "error", errors |-> errors, passes |-> passes,
                final_node_id |-> final_node_id, final_from |-> final_from,
                advice |-> {}, reported |-> <<>>]]

\* lines 162-181: no terminal node
FinishNoFinal(s, cs, al, w, validate) ==
  LET w2 == Append(w, <<"NO_TERMINAL_NODE">>)
      cs2 == IF cs = <<>> THEN <<FinalPlaceholderCte>> ELSE cs
      al2 == IF cs = <<>> THEN Put(al, <<"final">>, <<"final">>) ELSE al
      final_from == [kind |-> "cte", name |-> <<"final">>]
  IN IF validate
     THEN Raised(cs2, al2, w2, None, final_from, << <<"MISSING_FINAL_NODE">> >>, <<>>)
     ELSE Returned(cs2, al2, w2, None, final_from, {})

\* lines 184-238: the terminal node is a data source
FinishDataSource(s, cs, al, w, final_node_id) ==
  LET f == _render_from(s, al, final_node_id)
  IN Returned(cs, f.al, w, final_node_id, f.from, {})

\* lines 240-301: the terminal node is (or should be) a rendered CTE
FinishNode(s, cs, al, w, final_node_id, validate) ==
  LET known == HasKey(al, final_node_id)
      cs2 == IF ~known /\ cs = <<>> THEN <<FinalPlaceholderCte>> ELSE cs
      al2 == IF ~known /\ cs = <<>> THEN Put(al, <<"final">>, <<"final">>) ELSE al
      w2 == IF known THEN w
            ELSE IF cs = <<>> THEN Append(w, <<"FINAL_NOT_FOUND_PLACEHOLDER", final_node_id>>)
            ELSE Append(w, <<"FINAL_NOT_FOUND_LAST_CTE", final_node_id>>)
      final_alias == IF known THEN Get(al, final_node_id)
                     ELSE IF cs = <<>> THEN <<"final">>
                     ELSE IF al # <<>> THEN Values(al)[Len(al)] ELSE <<"final">>
      final_from == [kind |-> "cte", name |-> final_alias]
      results == RunPasses(s, cs2, al2, final_from)
  IN IF ~validate THEN Returned(cs2, al2, w2, final_node_id, final_from, {})
     ELSE IF \E i \in 1..Len(results) : results[i].errors # <<>>
          THEN Raised(cs2, al2, w2, final_node_id, final_from, CollectErrors(results), PassNames)
     ELSE Returned(cs2, al2, w2, final_node_id, final_from, CollectAdvice(results))

render_scenario_tail(s, ord, cs, al, w, validate) ==
  LET final_node_id == _find_final_node(s, ord)
  IN IF final_node_id = None THEN FinishNoFinal(s, cs, al, w, validate)
     ELSE IF final_node_id \in s.data_sources THEN FinishDataSource(s, cs, al, w, final_node_id)
     ELSE FinishNode(s, cs, al, w, final_node_id, validate)

\* ------------------------------------------------------------------------
\* convert_xml_to_sql, stages 3 and 4 (converter.py lines 343-506)
\* ------------------------------------------------------------------------
RECURSIVE ConverterAliases(_, _)
\* the alias table the converter fills for its own validation (lines 406-412)
ConverterAliases(s, ord) ==
  IF ord = <<>> THEN <<>>
  ELSE IF Head(ord) \in s.data_sources \/ Head(ord) \notin Nodes(s) THEN ConverterAliases(s, Tail(ord))
  ELSE << <<Head(ord), [i \in 1..Len(Head(ord)) |-> Lower(Head(ord)[i])]>> >> \o ConverterAliases(s, Tail(ord))

convert_xml_to_sql(s, ord, cs, al, w) ==
  LET r == render_scenario_tail(s, ord, cs, al, w, FALSE)
      results == RunPasses(s, r.ctes, ConverterAliases(s, ord), r.outcome.final_from)
  IN [r EXCEPT !.outcome.reported = CollectErrors(results),
               !.outcome.passes = PassNames,
               !.outcome.advice = CollectAdvice(results)]

\* ------------------------------------------------------------------------
\* The render driver as a state machine
\* ------------------------------------------------------------------------
NoOutcome == [kind |-> "none"]

NoAgg == [kind |-> "none"]

Init ==
  /\ pc = "start"
  /\ scenario \in Scenarios
  /\ ordered = <<>> /\ ctes = <<>> /\ cte_aliases = <<>> /\ warnings = <<>>
  /\ outcome = NoOutcome
  /\ formula = <<>> /\ result = <<>> /\ iteration = 0 /\ outputs = <<>>
  /\ aggNode = NoAgg /\ select_items = <<>> /\ group_by_cols = <<>> /\ outer_select = <<>>
  /\ FiltersIdle
  /\ CleanIdle
  /\ CorrectorIdle
  /\ FromIdle
  /\ CatalogIdle
  /\ ParseIdle
  /\ InIdle
  /\ FnIdle
  /\ ProjIdle
  /\ UnionIdle

\* a context whose construction takes the terminal node out of the scenario
RenderContext_ClearsBaseNode(s) ==
  [scenario |-> [s EXCEPT !.base_node_id = None], cte_aliases |-> <<>>, warnings |-> <<>>]

\* RenderContext.__init__ (lines 61-70): the context refers to the scenario
\* it is handed and starts with an empty alias table and no warnings
RenderContext(s) == [scenario |-> s, cte_aliases |-> <<>>, warnings |-> <<>>]

\* ctx = RenderContext(scenario, ...); ordered_nodes = _topological_sort(scenario).
\* ctx.scenario is the caller's Scenario object, so what the context holds
\* is what the caller finds afterwards
TopologicalSort ==
  /\ pc = "start"
  /\ \E ctx \in {RenderContext(scenario)} :
       /\ scenario' = ctx.scenario
       /\ cte_aliases' = ctx.cte_aliases
       /\ warnings' = ctx.warnings
  /\ ordered' \in _topological_sort(scenario)
  /\ pc' = "sorted"
  /\ UNCHANGED <<ctes, outcome, elimVars, aggVars, filterVars, cleanVars, corrVars, fromVars, catalogVars, parseVars, inVars, fnVars, projVars, unionVars>>

\* the node loop of render_scenario
RenderNodes ==
  /\ pc = "sorted"
  /\ LET r == RenderLoop(scenario, ordered, <<>>, cte_aliases, warnings)
     IN ctes' = r.ctes /\ cte_aliases' = r.al /\ warnings' = r.w
  /\ pc' = "rendered"
  /\ UNCHANGED <<scenario, ordered, outcome, elimVars, aggVars, filterVars, cleanVars, corrVars, fromVars, catalogVars, parseVars, inVars, fnVars, projVars, unionVars>>

\* the rest of render_scenario, called directly (validate defaults to True)
RenderScenario ==
  /\ pc = "rendered"
  /\ \E validate \in BOOLEAN :
       LET r == render_scenario_tail(scenario, ordered, ctes, cte_aliases, warnings, validate)
       IN /\ ctes' = r.ctes /\ cte_aliases' = r.al /\ warnings' = r.w /\ outcome' = r.outcome
          /\ pc' = IF validate THEN "done" ELSE "done_unvalidated"
  /\ UNCHANGED <<scenario, ordered, elimVars, aggVars, filterVars, cleanVars, corrVars, fromVars, catalogVars, parseVars, inVars, fnVars, projVars, unionVars>>

\* the rest of render_scenario as called by convert_xml_to_sql, and its stage 4
ConvertXmlToSql ==
  /\ pc = "rendered"
  /\ LET r == convert_xml_to_sql(scenario, ordered, ctes, cte_aliases, warnings)
     IN ctes' = r.ctes /\ cte_aliases' = r.al /\ warnings' = r.w /\ outcome' = r.outcome
  /\ pc' = "converted"
  /\ UNCHANGED <<scenario, ordered, elimVars, aggVars, filterVars, cleanVars, corrVars, fromVars, catalogVars, parseVars, inVars, fnVars, projVars, unionVars>>

Next == TopologicalSort \/ RenderNodes \/ RenderScenario \/ ConvertXmlToSql

Spec == Init /\ [][Next]_vars

\* ------------------------------------------------------------------------
\* Properties of the graph resolver and the render driver
\* ------------------------------------------------------------------------
\* the ids a node's inputs name once cleaned
Deps(s, n) == {CleanInput(s.inputs[n][i]) : i \in 1..Len(s.inputs[n])} \cap AllIds(s)

RECURSIVE DepClosure(_, _)
DepClosure(s, S) ==
  LET S2 == S \cup UNION {Deps(s, m) : m \in S \cap Nodes(s)}
  IN IF S2 = S THEN S ELSE DepClosure(s, S2)

TransDeps(s, n) == DepClosure(s, Deps(s, n))

Acyclic(s) == \A n \in Nodes(s) : n \notin TransDeps(s, n)

Before(seq, a, b) ==
  /\ \E i \in 1..Len(seq) : seq[i] = a
  /\ \E j \in 1..Len(seq) : seq[j] = b
  /\ \A i, j \in 1..Len(seq) : seq[i] = a /\ seq[j] = b => i < j

Sorted == pc # "start"

\* C1: for a scenario whose cleaned node graph is acyclic, every node comes
\* after every node and data source it depends on, directly or transitively,
\* in the list the topological sort returns.
C1_DependenciesFirst ==
  (Sorted /\ Acyclic(scenario)) =>
     \A n \in Nodes(scenario) : \A d \in TransDeps(scenario, n) : Before(ordered, d, n)

\* a sorted acyclic scenario with a chain of two dependencies
C1_Witness ==
  /\ pc = "sorted" /\ Acyclic(scenario)
  /\ \E n \in Nodes(scenario) : Cardinality(TransDeps(scenario, n)) >= 2

Finished == pc \in {"done", "done_unvalidated", "converted"}

\* the ids some node lists as an input, inputs cleaned; a node's reference to
\* itself counted (ReferencedCleaned) or not (ReferencedByOther)
ReferencedCleaned(s) == UNION {{CleanInput(s.inputs[n][i]) : i \in 1..Len(s.inputs[n])} : n \in Nodes(s)}

ReferencedByOther(s) ==
  {x \in AllIds(s) : \E n \in Nodes(s) \ {x} : \E i \in 1..Len(s.inputs[n]) : CleanInput(s.inputs[n][i]) = x}

\* C2 (as claimed): the terminal node is the declared base node when there is
\* one; otherwise it is the last node in sort order that no other node lists
\* as an input, inputs compared after reference cleaning.  Stated for a
\* non-empty scenario, and, without a base node, for the scenarios in which
\* such a node exists and is the same whether or not a node's reference to
\* itself counts.
C2_FinalNodeAsClaimed ==
  (Finished /\ ordered # <<>>) =>
     IF scenario.base_node_id # None THEN outcome.final_node_id = scenario.base_node_id
     ELSE LET last == LastUnreferenced(scenario, ordered, ReferencedCleaned(scenario))
              lastOther == LastUnreferenced(scenario, ordered, ReferencedByOther(scenario))
          IN (last # None /\ last = lastOther) => outcome.final_node_id = last

\* the validation errors the five passes find on the statement as it stands
ErrorsFound == CollectErrors(RunPasses(scenario, ctes, cte_aliases, outcome.final_from))

\* C3 (as claimed): whenever validating the generated statement reports an
\* error, the caller gets an error and no SQL, whatever the terminal node is:
\* both for render_scenario called with validation and for convert_xml_to_sql.
C3_ErrorsBlockEmission ==
  ((pc = "done" /\ ErrorsFound # <<>>) \/ (pc = "converted" /\ outcome.reported # <<>>)) =>
     outcome.kind = "error"

\* every error any of the five passes finds is listed in the raised error
AllErrorsListed ==
  LET results == RunPasses(scenario, ctes, cte_aliases, outcome.final_from)
  IN \A i \in 1..Len(results) : Range(results[i].errors) \subseteq Range(outcome.errors)

HasUnresolvedInput(s) ==
  \E n \in Nodes(s) : \E i \in 1..Len(s.inputs[n]) : CleanInput(s.inputs[n][i]) \notin AllIds(s)

\* C5 (as claimed): with an unresolved input reference rendering does not
\* raise; it returns SQL with a placeholder and has recorded a warning.
C5_UnresolvedDegrades ==
  (pc \in {"done", "done_unvalidated"} /\ HasUnresolvedInput(scenario)) =>
     /\ outcome.kind = "sql"
     /\ warnings # <<>>
     /\ \E i \in 1..Len(ctes) : ctes[i].body.placeholder

\* ------------------------------------------------------------------------
\* Regular expressions (Python's re, backtracking with greedy quantifiers).
\* A pattern is a sequence of elements; an element is a character class with
\* a repetition range (max < 0: unbounded) or the zero-width assertion \b.
\* Text is a sequence of one-character tokens; positions are 1-based and a
\* match is reported as [start, end] with end the position after the match.
\* ------------------------------------------------------------------------
Cls(chars) == [neg |-> FALSE, chars |-> chars]

NotCls(chars) == [neg |-> TRUE, chars |-> chars]

InClass(c, cls) == (c \in cls.chars) # cls.neg

Rep(cls, lo, hi) == [kind |-> "rep", cls |-> cls, min |-> lo, max |-> hi]

One(cls) == Rep(cls, 1, 1)

Star(cls) == Rep(cls, 0, -1)

Plus(cls) == Rep(cls, 1, -1)

WordBoundary == [kind |-> "b"]

\* a literal text, case-sensitive / under re.IGNORECASE
Lits(w) == [i \in 1..Len(w) |-> One(Cls({w[i]}))]

LitsI(w) == [i \in 1..Len(w) |-> One(Cls({Lower(w[i]), Upper(w[i])}))]

\* \s, \d, [A-Z_] (the latter also under re.IGNORECASE)
Ws == Cls({" "})

Digit == Cls(Digits)

UpperOrUnderscore == Cls(Range(UpperLetters) \cup {"_"})

LetterOrUnderscore == Cls(Range(UpperLetters) \cup Range(LowerLetters) \cup {"_"})

IsWordChar(c) == c \in Range(UpperLetters) \cup Range(LowerLetters) \cup Digits \cup {"_"}

AtWordBoundary(s, pos) ==
  LET before == pos > 1 /\ IsWordChar(s[pos - 1])
      at == pos <= Len(s) /\ IsWordChar(s[pos])
  IN before # at

Min(S) == CHOOSE x \in S : \A y \in S : x <= y

\* how many characters of cls follow from pos, at most cap
FirstStop(stops, pos, last) == IF stops = {} THEN last - pos + 1 ELSE Min(stops) - pos

RunUpTo(s, pos, cls, last) == FirstStop({j \in pos..last : ~InClass(s[j], cls)}, pos, last)

RunLen(s, pos, cls, cap) ==
  RunUpTo(s, pos, cls, IF pos + cap - 1 > Len(s) THEN Len(s) ELSE pos + cap - 1)

\* of the <<count, end>> pairs the one that matched (end # 0) with the
\* largest count: what a greedy quantifier settles on; 0: none
LongestEnd(ends) ==
  IF \A e \in ends : e[2] = 0 THEN 0
  ELSE (CHOOSE e \in ends : e[2] # 0 /\ \A o \in ends : o[2] # 0 => e[1] >= o[1])[2]

\* the end of the match of pat[k..] at pos the backtracking search finds first; 0: none
RECURSIVE MatchEnd(_, _, _, _)
MatchEnd(pat, k, s, pos) ==
  IF k > Len(pat) THEN pos
  ELSE IF pat[k].kind = "b"
       THEN IF AtWordBoundary(s, pos) THEN MatchEnd(pat, k + 1, s, pos) ELSE 0
  ELSE LongestEnd({<<n, MatchEnd(pat, k + 1, s, pos + n)>> :
                     n \in pat[k].min..RunLen(s, pos, pat[k].cls,
                                              IF pat[k].max < 0 THEN Len(s) ELSE pat[k].max)})

NoMatch == [start |-> 0, end |-> 0, alt |-> 0]

\* of the <<alternative, end>> pairs the first alternative that matched
FirstAlt(pos, ends) ==
  IF \A e \in ends : e[2] = 0 THEN NoMatch
  ELSE LET first == CHOOSE e \in ends : e[2] # 0 /\ \A o \in ends : o[2] # 0 => e[1] <= o[1]
       IN [start |-> pos, end |-> first[2], alt |-> first[1]]

\* the first alternative of alts (in order) that matches at pos
MatchAlt(alts, s, pos) == FirstAlt(pos, {<<a, MatchEnd(alts[a], 1, s, pos)>> : a \in 1..Len(alts)})

LeftMost(found) ==
  IF found = {} THEN NoMatch ELSE CHOOSE m \in found : \A o \in found : m.start <= o.start

\* re.search over an alternation of patterns, scanning from position from
SearchAlt(alts, s, from) ==
  LeftMost({MatchAlt(alts, s, i) : i \in from..(Len(s) + 1)} \ {NoMatch})

re_search(pat, s) == SearchAlt(<<pat>>, s, 1)

\* re.sub(pat, repl, s) for a pattern that matches no empty text
RECURSIVE SubFrom(_, _, _, _)
RECURSIVE SubAt(_, _, _, _, _)
SubAt(pat, repl, s, from, m) ==
  IF m = NoMatch THEN SubSeq(s, from, Len(s))
  ELSE SubSeq(s, from, m.start - 1) \o repl \o SubFrom(pat, repl, s, m.end)

SubFrom(pat, repl, s, from) == SubAt(pat, repl, s, from, SearchAlt(<<pat>>, s, from))

re_sub(pat, repl, s) == SubFrom(pat, repl, s, 1)

\* sub in s
Contains(s, sub) == \E k \in 1..(Len(s) - Len(sub) + 1) : SubSeq(s, k, k + Len(sub) - 1) = sub

\* ------------------------------------------------------------------------
\* function_translator._remove_parameter_clauses_hana
\* ------------------------------------------------------------------------
max_iterations == 20

max_fragment_iterations == 20

IsQuote(c) == c \in {"\"", "'"}

\* r"\$\$IP_[A-Z_]+\$\$"
param_pattern ==
  Lits(<<"$", "$", "I", "P", "_">>) \o <<Plus(UpperOrUnderscore)>> \o Lits(<<"$", "$">>)

\* \bif\s*\(\s*\'  ...  \'\s*(!?=)\s*\'\'   under re.IGNORECASE, with the
\* alternation (?:\$\$IP_[A-Z_]+\$\$|\'{0,3}) and the optional "!" spelled out
IfPattern(middle, operator) ==
  <<WordBoundary>> \o LitsI(<<"i", "f">>) \o <<Star(Ws)>> \o Lits(<<"(">>) \o <<Star(Ws)>>
    \o Lits(<<"'">>) \o middle \o Lits(<<"'">>) \o <<Star(Ws)>> \o Lits(operator)
    \o <<Star(Ws)>> \o Lits(<<"'", "'">>)

IfParamMiddle ==
  Lits(<<"$", "$">>) \o LitsI(<<"I", "P">>) \o Lits(<<"_">>) \o <<Plus(LetterOrUnderscore)>>
    \o Lits(<<"$", "$">>)

IfQuotesMiddle == <<Rep(Cls({"'"}), 0, 3)>>

IfOperators == << <<"!", "=">>, <<"=">>, <<"!", "=">>, <<"=">> >>

IfPatterns ==
  <<IfPattern(IfParamMiddle, IfOperators[1]), IfPattern(IfParamMiddle, IfOperators[2]),
    IfPattern(IfQuotesMiddle, IfOperators[3]), IfPattern(IfQuotesMiddle, IfOperators[4])>>

\* ''.join(current).strip(), appended to args when not empty
AppendArg(args, current) == IF Strip(current) = <<>> THEN args ELSE Append(args, Strip(current))

\* the argument scan of the IF() loop from 1-based position i; returns the
\* arguments and the position the scan stopped at
RECURSIVE ScanArgs(_, _, _, _, _, _)
ScanArgs(s, i, depth, in_quote, current, args) ==
  IF i > Len(s) THEN [args |-> args, i |-> i]
  ELSE LET c == s[i]
           q == IF IsQuote(c) THEN ~in_quote ELSE in_quote
       IN IF ~q /\ c = ")" /\ depth = 1 THEN [args |-> AppendArg(args, current), i |-> i]
          ELSE IF ~q /\ c = "," /\ depth = 1
               THEN ScanArgs(s, i + 1, depth, q, <<>>, AppendArg(args, current))
          ELSE LET d == IF q THEN depth
                        ELSE IF c = "(" THEN depth + 1
                        ELSE IF c = ")" THEN depth - 1
                        ELSE depth
               IN ScanArgs(s, i + 1, d, q, Append(current, c), args)

NullLiteral == <<"N", "U", "L", "L">>

EmptyLiterals == {<<"'", "'">>, <<"'", "'", "'", "'">>, <<"\"", "\"">>}

Stop(res) == [stop |-> TRUE, res |-> res]

Rewritten(res) == [stop |-> FALSE, res |-> res]

\* the branch of the IF() the condition on an empty parameter selects
IfBranch(operator, args) == IF operator = <<"=">> THEN args[1] ELSE args[2]

IfReplacement(chosen) == IF Strip(chosen) \in EmptyLiterals THEN NullLiteral ELSE chosen

IfReplace(res, if_match, scan) ==
  IF Len(scan.args) # 2 THEN Stop(res)
  ELSE Rewritten(SubSeq(res, 1, if_match.start - 1)
                   \o IfReplacement(IfBranch(IfOperators[if_match.alt], scan.args))
                   \o SubSeq(res, scan.i + 1, Len(res)))

IfMatched(res, if_match) ==
  IF if_match = NoMatch THEN Stop(res)
  ELSE IfReplace(res, if_match, ScanArgs(res, if_match.end, 1, FALSE, <<>>, <<>>))

\* one round of the IF() loop: the rewritten text, or stop (break)
IfStep(res) == IfMatched(res, SearchAlt(IfPatterns, res, 1))

Unescaped(s, i) == i = 1 \/ s[i - 1] # "\\"

\* ahead = result[i:param_pos + 30].upper() starts a parameter clause
StartsParameterClause(s, i, param_pos) ==
  LET last == IF param_pos + 29 > Len(s) THEN Len(s) ELSE param_pos + 29
      ahead == UpperSeq(SubSeq(s, i, last))
  IN /\ Contains(ahead, <<"I", "P", "_">>)
     /\ \/ Contains(ahead, <<"=">>)
        \/ Contains(ahead, <<"I", "N", "(">>)
        \/ Contains(ahead, <<"I", "N", " ", "(">>)

\* the backward scan for the opening parenthesis; 0 when there is none
RECURSIVE BackScan(_, _, _, _, _)
BackScan(s, i, depth, in_quote, param_pos) ==
  IF i < 1 THEN 0
  ELSE LET c == s[i]
           q == IF IsQuote(c) /\ Unescaped(s, i) THEN ~in_quote ELSE in_quote
       IN IF q THEN BackScan(s, i - 1, depth, q, param_pos)
          ELSE IF c = ")" THEN BackScan(s, i - 1, depth + 1, q, param_pos)
          ELSE IF c = "("
               THEN IF depth = 0 /\ StartsParameterClause(s, i, param_pos) THEN i
                    ELSE BackScan(s, i - 1, depth - 1, q, param_pos)
          ELSE BackScan(s, i - 1, depth, q, param_pos)

IsOrChunk(s, i) ==
  /\ i + 2 <= Len(s)
  /\ UpperSeq(SubSeq(s, i, i + 2)) \in {<<" ", "O", "R">>, <<"O", "R", " ">>}

\* the forward scan for the matching closing parenthesis and a top-level OR
RECURSIVE ForwardScan(_, _, _, _, _)
ForwardScan(s, i, depth, in_quote, has_or) ==
  IF i > Len(s) THEN [closing_paren |-> 0, has_or |-> has_or]
  ELSE LET c == s[i]
           q == IF IsQuote(c) /\ Unescaped(s, i) THEN ~in_quote ELSE in_quote
       IN IF q THEN ForwardScan(s, i + 1, depth, q, has_or)
          ELSE IF c = "(" THEN ForwardScan(s, i + 1, depth + 1, q, has_or)
          ELSE IF c = ")"
               THEN IF depth = 1 THEN [closing_paren |-> i, has_or |-> has_or]
                    ELSE ForwardScan(s, i + 1, depth - 1, q, has_or)
          ELSE ForwardScan(s, i + 1, depth, q, has_or \/ (depth = 1 /\ IsOrChunk(s, i)))

\* the connector clean-up before and after a removed clause
TrimBefore(before) ==
  LET before_stripped == RStrip(before)
      n == Len(before_stripped)
  IN IF EndsWith(UpperSeq(before_stripped), <<" ", "A", "N", "D">>) THEN Take(before_stripped, n - 4)
     ELSE IF EndsWith(UpperSeq(before_stripped), <<" ", "O", "R">>) THEN Take(before_stripped, n - 3)
     ELSE IF EndsWith(before_stripped, <<"A", "N", "D">>) THEN Take(before_stripped, n - 3)
     ELSE IF EndsWith(before_stripped, <<"O", "R">>) THEN Take(before_stripped, n - 2)
     ELSE before

TrimAfter(after) ==
  LET after_stripped == LStrip(after)
  IN IF StartsWith(UpperSeq(after_stripped), <<"A", "N", "D", " ">>) THEN Drop(after_stripped, 4)
     ELSE IF StartsWith(UpperSeq(after_stripped), <<"O", "R", " ">>) THEN Drop(after_stripped, 3)
     ELSE after

\* the placeholder replaced by '' (no clause found around it)
Emptied(res, param_match) ==
  SubSeq(res, 1, param_match.start - 1) \o <<"'", "'">> \o SubSeq(res, param_match.end, Len(res))

RemoveClosed(res, param_match, opening_paren, fwd) ==
  IF fwd.closing_paren = 0 \/ ~fwd.has_or THEN Emptied(res, param_match)
  ELSE TrimBefore(SubSeq(res, 1, opening_paren - 1))
         \o TrimAfter(SubSeq(res, fwd.closing_paren + 1, Len(res)))

RemoveOpened(res, param_match, opening_paren) ==
  IF opening_paren = 0 THEN Emptied(res, param_match)
  ELSE RemoveClosed(res, param_match, opening_paren,
                    ForwardScan(res, opening_paren, 0, FALSE, FALSE))

\* one round of the clause-removal loop on a text that holds a placeholder
RemoveOneClause(res, param_match) ==
  RemoveOpened(res, param_match,
               BackScan(res, param_match.start - 1, 0, FALSE, param_match.start))

ClauseMatched(res, param_match) ==
  IF param_match = NoMatch THEN Stop(res) ELSE Rewritten(RemoveOneClause(res, param_match))

\* one round of the clause-removal loop: the rewritten text, or stop (break)
ClauseStep(res) == ClauseMatched(res, re_search(param_pattern, res))

Sp == <<" ">>

AndWord == <<"A", "N", "D">>

OrWord == <<"O", "R">>

\* \s*AND\s+AND\s*  and  \s*OR\s+OR\s*  under re.IGNORECASE
Doubled(word) == <<Star(Ws)>> \o LitsI(word) \o <<Plus(Ws)>> \o LitsI(word) \o <<Star(Ws)>>

\* [\s(]\(\s*\)[\s)]
OrphanParens ==
  <<One(Cls({" ", "("}))>> \o Lits(<<"(">>) \o <<Star(Ws)>> \o Lits(<<")">>) \o <<One(Cls({" ", ")"}))>>

\* the clean-up after the clause-removal loop
CollapseAndClean(res) ==
  re_sub(Doubled(OrWord), Sp \o OrWord \o Sp,
    re_sub(Doubled(AndWord), Sp \o AndWord \o Sp,
      re_sub(OrphanParens, <<>>,
        re_sub(<<Plus(Ws)>>, Sp, res))))

\* ''{2,4}: a quote followed by two to four quotes
EmptyQuotes == Lits(<<"'">>) \o <<Rep(Cls({"'"}), 2, 4)>>

\* \s+OR\s+ under re.IGNORECASE
SpacedOr == <<Plus(Ws)>> \o LitsI(OrWord) \o <<Plus(Ws)>>

\* DATE under re.IGNORECASE
DateWord == LitsI(<<"D", "A", "T", "E">>)

\* the six malformed-fragment patterns, in the order they are tried
FragmentPatterns ==
  << Lits(<<"(">>) \o <<Star(Ws)>> \o Lits(<<"(">>) \o <<Star(Ws)>> \o EmptyQuotes \o <<Star(Ws)>>
       \o Lits(<<"=">>) \o <<Star(Ws), Plus(Digit), Star(Ws)>> \o Lits(<<")">>) \o SpacedOr
       \o <<Plus(NotCls({")"}))>> \o Lits(<<")">>),
     Lits(<<"(">>) \o <<Star(Ws)>> \o Lits(<<"(">>) \o <<Star(Ws)>> \o EmptyQuotes \o <<Star(Ws)>>
       \o Lits(<<"=">>) \o <<Star(Ws)>> \o EmptyQuotes \o <<Star(Ws)>> \o Lits(<<")">>) \o SpacedOr
       \o <<Plus(NotCls({")"}))>> \o Lits(<<")">>),
     Lits(<<"(">>) \o <<Star(Ws)>> \o EmptyQuotes \o <<Star(Ws)>> \o Lits(<<"=">>) \o <<Star(Ws)>>
       \o EmptyQuotes \o SpacedOr \o <<Plus(NotCls({")"}))>> \o Lits(<<")">>),
     Lits(<<"(">>) \o <<Plus(NotCls({"("}))>> \o SpacedOr \o Lits(<<"(">>) \o <<Star(Ws)>>
       \o EmptyQuotes \o <<Star(Ws)>> \o Lits(<<"=">>) \o <<Star(Ws), Plus(Digit), Star(Ws)>>
       \o Lits(<<")">>) \o <<Star(Ws)>> \o Lits(<<")">>),
     DateWord \o <<Star(Ws)>> \o Lits(<<"(">>) \o <<Star(Ws)>> \o EmptyQuotes \o <<Star(Ws)>>
       \o Lits(<<")">>),
     Lits(<<"(">>) \o <<Star(Ws)>> \o DateWord \o Lits(<<"(">>) \o <<Plus(NotCls({")"}))>>
       \o Lits(<<")">>) \o <<Star(Ws), Plus(Cls({"<", ">", "="})), Star(Ws)>> \o DateWord
       \o <<Star(Ws)>> \o Lits(<<"(">>) \o <<Star(Ws)>> \o EmptyQuotes \o <<Star(Ws)>>
       \o Lits(<<")">>) \o <<Star(Ws)>> \o Lits(<<")">>) >>

\* what replaces a match of the k-th fragment pattern
FragmentReplacement(k) == IF k = 5 THEN NullLiteral ELSE <<>>

\* the first fragment pattern (in order, from the k-th) found anywhere in res
RECURSIVE FirstFragment(_, _)
RECURSIVE FragmentAt(_, _, _)
FragmentAt(res, k, m) ==
  IF m # NoMatch THEN [k |-> k, m |-> m] ELSE FirstFragment(res, k + 1)

FirstFragment(res, k) ==
  IF k > Len(FragmentPatterns) THEN [k |-> 0, m |-> NoMatch]
  ELSE FragmentAt(res, k, re_search(FragmentPatterns[k], res))

FragmentFound(res, f) ==
  IF f.k = 0 THEN Stop(res)
  ELSE Rewritten(SubSeq(res, 1, f.m.start - 1) \o FragmentReplacement(f.k)
                   \o SubSeq(res, f.m.end, Len(res)))

\* one round of the fragment loop: the rewritten text, or stop (break)
FragmentStep(res) == FragmentFound(res, FirstFragment(res, 1))

WhereWord == <<"W", "H", "E", "R", "E">>

\* \s+AND\s+\)  and  \s+OR\s+\)  under re.IGNORECASE
BeforeClosing(word) == <<Plus(Ws)>> \o LitsI(word) \o <<Plus(Ws)>> \o Lits(<<")">>)

\* \(\s+AND\s+  and  \(\s+OR\s+
AfterOpening(word) == Lits(<<"(">>) \o <<Plus(Ws)>> \o LitsI(word) \o <<Plus(Ws)>>

\* WHERE\s+AND\s+  and  WHERE\s+OR\s+
AfterWhere(word) == LitsI(WhereWord) \o <<Plus(Ws)>> \o LitsI(word) \o <<Plus(Ws)>>

\* the clean-up of connectors orphaned by the fragment removal
OrphanConnectorCleanup(res) ==
  re_sub(AfterWhere(OrWord), WhereWord \o Sp,
    re_sub(AfterWhere(AndWord), WhereWord \o Sp,
      re_sub(AfterOpening(OrWord), <<"(">>,
        re_sub(AfterOpening(AndWord), <<"(">>,
          re_sub(BeforeClosing(OrWord), <<" ", ")">>,
            re_sub(BeforeClosing(AndWord), <<" ", ")">>, res))))))

\* ------------------------------------------------------------------------
\* The formulas handed to the parameter elimination
\* ------------------------------------------------------------------------
\* clauses joined into one formula
MaxClauses == 3

\* placeholders in a formula that is a run of placeholders
MaxPlaceholders == 21

Placeholder == <<"$", "$", "I", "P", "_", "X", "$", "$">>

Quoted(t) == <<"'">> \o t \o <<"'">>

Parens(t) == <<"(">> \o t \o <<")">>

EqZero == <<" ", "=", " ", "0">>

EqEmpty == <<" ", "=", " ", "'", "'">>

OrA == <<" ", "O", "R", " ", "a">>

OrB == <<" ", "O", "R", " ", "b">>

\* the clause shapes:  a | ($$IP_X$$ = 0 OR a) | ('$$IP_X$$' = '' OR a)
\*   | (($$IP_X$$ = 0 OR a)) | (('$$IP_X$$' = 0) OR b)
\*   | if('$$IP_X$$' != '', f('$$IP_X$$'), '') | (a = $$IP_X$$)
Clauses ==
  << <<"a">>,
     Parens(Placeholder \o EqZero \o OrA),
     Parens(Quoted(Placeholder) \o EqEmpty \o OrA),
     Parens(Parens(Placeholder \o EqZero \o OrA)),
     Parens(Parens(Quoted(Placeholder) \o EqZero) \o OrB),
     <<"i", "f">> \o Parens(Quoted(Placeholder) \o <<" ", "!", "=", " ", "'", "'", ",", " ", "f">>
                              \o Parens(Quoted(Placeholder)) \o <<",", " ", "'", "'">>),
     Parens(<<"a", " ", "=", " ">> \o Placeholder) >>

Connectors == {<<" ", "A", "N", "D", " ">>, <<" ", "O", "R", " ">>}

\* the clauses cs joined by connector c
RECURSIVE Join(_, _)
Join(cs, c) ==
  IF Len(cs) = 1 THEN cs[1] ELSE cs[1] \o c \o Join(Tail(cs), c)

\* n placeholders separated by single spaces
RECURSIVE PlaceholderRun(_)
PlaceholderRun(n) ==
  IF n = 0 THEN <<>>
  ELSE IF n = 1 THEN Placeholder
  ELSE Placeholder \o <<" ">> \o PlaceholderRun(n - 1)

Joined ==
  {Join([i \in DOMAIN pick |-> Clauses[pick[i]]], c) :
     pick \in UNION {[1..n -> 1..Len(Clauses)] : n \in 1..MaxClauses}, c \in Connectors}

Formulas ==
  Joined \cup {Parens(f) : f \in Joined} \cup {PlaceholderRun(n) : n \in 0..MaxPlaceholders}

\* ------------------------------------------------------------------------
\* _remove_parameter_clauses_hana as a state machine: one action per round of
\* each of its three loops and one per clean-up block
\* ------------------------------------------------------------------------
InitElim ==
  /\ pc = "if_loop"
  /\ formula \in Formulas
  /\ result = formula /\ iteration = 0 /\ outputs = <<>>
  /\ scenario = [node_ids |-> <<>>] /\ ordered = <<>> /\ ctes = <<>> /\ cte_aliases = <<>>
  /\ warnings = <<>> /\ outcome = NoOutcome
  /\ aggNode = NoAgg /\ select_items = <<>> /\ group_by_cols = <<>> /\ outer_select = <<>>
  /\ FiltersIdle
  /\ CleanIdle
  /\ CorrectorIdle
  /\ FromIdle
  /\ CatalogIdle
  /\ ParseIdle
  /\ InIdle
  /\ FnIdle
  /\ ProjIdle
  /\ UnionIdle

\* a round of the IF() loop that rewrites an IF()
IfRound ==
  /\ pc = "if_loop" /\ iteration < max_iterations
  /\ \E step \in {IfStep(result)} : ~step.stop /\ result' = step.res
  /\ iteration' = iteration + 1
  /\ UNCHANGED <<pc, formula, outputs, renderVars, aggVars, filterVars, cleanVars, corrVars, fromVars, catalogVars, parseVars, inVars, fnVars, projVars, unionVars>>

\* the IF() loop ends: no IF() left, a malformed IF(), or max_iterations rounds
IfLoopEnd ==
  /\ pc = "if_loop"
  /\ iteration = max_iterations \/ IfStep(result).stop
  /\ pc' = "clause_loop" /\ iteration' = 0
  /\ UNCHANGED <<formula, result, outputs, renderVars, aggVars, filterVars, cleanVars, corrVars, fromVars, catalogVars, parseVars, inVars, fnVars, projVars, unionVars>>

\* a round of the clause loop: removes a clause or blanks a placeholder
ClauseRound ==
  /\ pc = "clause_loop" /\ iteration < max_iterations
  /\ \E step \in {ClauseStep(result)} : ~step.stop /\ result' = step.res
  /\ iteration' = iteration + 1
  /\ UNCHANGED <<pc, formula, outputs, renderVars, aggVars, filterVars, cleanVars, corrVars, fromVars, catalogVars, parseVars, inVars, fnVars, projVars, unionVars>>

\* the clause loop ends (no placeholder left, or max_iterations rounds) and
\* the first clean-up block runs
ClauseLoopEnd ==
  /\ pc = "clause_loop"
  /\ iteration = max_iterations \/ ClauseStep(result).stop
  /\ result' = CollapseAndClean(result)
  /\ pc' = "fragment_loop" /\ iteration' = 0
  /\ UNCHANGED <<formula, outputs, renderVars, aggVars, filterVars, cleanVars, corrVars, fromVars, catalogVars, parseVars, inVars, fnVars, projVars, unionVars>>

\* a round of the fragment loop that removes a fragment
FragmentRound ==
  /\ pc = "fragment_loop" /\ iteration < max_fragment_iterations
  /\ \E step \in {FragmentStep(result)} : ~step.stop /\ result' = step.res
  /\ iteration' = iteration + 1
  /\ UNCHANGED <<pc, formula, outputs, renderVars, aggVars, filterVars, cleanVars, corrVars, fromVars, catalogVars, parseVars, inVars, fnVars, projVars, unionVars>>

\* the fragment loop ends, the last clean-up block runs, the function returns
Return ==
  /\ pc = "fragment_loop"
  /\ iteration = max_fragment_iterations \/ FragmentStep(result).stop
  /\ result' = Strip(OrphanConnectorCleanup(result))
  /\ outputs' = Append(outputs, result')
  /\ pc' = "returned" /\ iteration' = 0
  /\ UNCHANGED <<formula, renderVars, aggVars, filterVars, cleanVars, corrVars, fromVars, catalogVars, parseVars, inVars, fnVars, projVars, unionVars>>

\* the function is applied to what it returned
ApplyAgain ==
  /\ pc = "returned" /\ Len(outputs) = 1
  /\ result' = outputs[1]
  /\ pc' = "if_loop" /\ iteration' = 0
  /\ UNCHANGED <<formula, outputs, renderVars, aggVars, filterVars, cleanVars, corrVars, fromVars, catalogVars, parseVars, inVars, fnVars, projVars, unionVars>>

NextElim ==
  IfRound \/ IfLoopEnd \/ ClauseRound \/ ClauseLoopEnd \/ FragmentRound \/ Return \/ ApplyAgain

SpecElim == InitElim /\ [][NextElim]_vars

\* ------------------------------------------------------------------------
\* Claims about parameter elimination (checked under SpecElim)
\* ------------------------------------------------------------------------
\* the function has returned for the first time / for the second time
ReturnedOnce == pc = "returned" /\ Len(outputs) >= 1
ReturnedTwice == pc = "returned" /\ Len(outputs) = 2

\* C6: the pass is idempotent: applied to its own output it returns that
\* output unchanged, eliminate(eliminate(f)) = eliminate(f).
C6_Idempotent == ReturnedTwice => outputs[2] = outputs[1]

CountOf(s, ch) == Cardinality({i \in DOMAIN s : s[i] = ch})
Balanced(s) == CountOf(s, "(") = CountOf(s, ")")

\* C7: for every formula with balanced parentheses the output of the pass
\* has as many opening as closing parentheses.
C7_BalancePreserved == (ReturnedOnce /\ Balanced(formula)) => Balanced(outputs[1])

\* one parenthesised clause with no parentheses inside, holding a placeholder
\* and an OR
IsSingleOrClause(f) ==
  /\ Len(f) >= 2 /\ f[1] = "(" /\ f[Len(f)] = ")"
  /\ \A i \in 2..(Len(f) - 1) : f[i] \notin {"(", ")"}
  /\ Contains(f, Placeholder)
  /\ Contains(f, <<" ", "O", "R", " ">>)

\* C8: a formula that is a single parenthesised OR-joined comparison clause
\* holding an unresolved placeholder is removed entirely: nothing of the
\* clause is left and what is left is balanced.
C8_ClauseRemoved == (ReturnedOnce /\ IsSingleOrClause(formula)) => outputs[1] = <<>>

\* C9: however many placeholders the input holds, the output of the pass
\* holds none.
C9_NoPlaceholderLeft == ReturnedOnce => ~Contains(outputs[1], <<"$", "$", "I", "P", "_">>)

\* ------------------------------------------------------------------------
\* Aggregation nodes (models.AggregationNode) within the bounds of the model
\* ------------------------------------------------------------------------
MaxMappings == 2

MaxGroupBy == 2

MaxAggregations == 1

MaxCalculated == 1

\* attribute names: two spellings of one simple name and a name that needs quoting
AggNames == {<<"A">>, <<"a">>, <<"/", "B">>}

SeqsUpTo(S, n) == UNION {[1..k -> S] : k \in 0..n}

DistinctSeqsUpTo(S, n) == {q \in SeqsUpTo(S, n) : \A i, j \in DOMAIN q : q[i] = q[j] => i = j}

\* a mapping of input column X to the target
AttributeMapping(target) == [target_name |-> target, source |-> <<"X">>]

\* what both parsers build for an aggregated attribute: FUNC over the column
\* of the attribute's own name
AggregationSpec(target) == [target_name |-> target, function |-> <<"S", "U", "M">>, column |-> target]

\* a calculated attribute whose expression is a column reference
CalculatedAttribute(name) == [name |-> name, column |-> <<"Y">>]

AggregationNodes ==
  {[node_id |-> <<"g">>, inputs |-> ins,
    mappings |-> [i \in DOMAIN m |-> AttributeMapping(m[i])],
    group_by |-> g,
    aggregations |-> [i \in DOMAIN a |-> AggregationSpec(a[i])],
    calculated_attributes |-> [i \in DOMAIN c |-> CalculatedAttribute(c[i])]] :
     ins \in {<<>>, <<<<"#", "t">>>>},
     m \in SeqsUpTo(AggNames, MaxMappings),
     g \in DistinctSeqsUpTo(AggNames, MaxGroupBy),
     a \in SeqsUpTo(AggNames, MaxAggregations),
     c \in DistinctSeqsUpTo(AggNames, MaxCalculated)}

\* ------------------------------------------------------------------------
\* _render_aggregation
\* ------------------------------------------------------------------------
IsAlpha(c) == c \in Range(UpperLetters) \cup Range(LowerLetters)

IsAlnum(c) == IsAlpha(c) \/ IsDigit(c)

WithoutUnderscores(name) == SelectSeq(name, LAMBDA c : c # "_")

\* str.isalnum(): every character alphanumeric and at least one character
IsAlnumText(name) == name # <<>> /\ \A i \in DOMAIN name : IsAlnum(name[i])

_quote_identifier_part(name) ==
  IF name = <<>> THEN <<"\"", "\"">>
  ELSE IF IsAlpha(name[1]) /\ IsAlnumText(WithoutUnderscores(name)) THEN UpperSeq(name)
  ELSE <<"\"">> \o name \o <<"\"">>

FirstDot(name) == CHOOSE k \in DOMAIN name : name[k] = "." /\ \A j \in 1..(k - 1) : name[j] # "."

_quote_identifier(name) ==
  IF \E k \in DOMAIN name : name[k] = "."
  THEN _quote_identifier_part(SubSeq(name, 1, FirstDot(name) - 1)) \o <<".">>
         \o _quote_identifier_part(SubSeq(name, FirstDot(name) + 1, Len(name)))
  ELSE _quote_identifier_part(name)

\* a column expression: qualified when a table alias is given
_render_column_ref(column_name, table_alias) ==
  IF table_alias # None THEN table_alias \o <<".">> \o _quote_identifier(column_name)
  ELSE _quote_identifier(column_name)

AsWord == <<" ", "A", "S", " ">>

calc_col_names(node) ==
  {UpperSeq(node.calculated_attributes[i].name) : i \in DOMAIN node.calculated_attributes}

aggregated_col_names(node) ==
  {UpperSeq(node.aggregations[i].target_name) : i \in DOMAIN node.aggregations}

\* key in target_to_expr_map (the dict is keyed by the upper-cased target)
HasTarget(mappings, key) == \E i \in DOMAIN mappings : UpperSeq(mappings[i].target_name) = key

\* target_to_expr_map[key]: the last mapping of the key wins
TargetExpr(mappings, key) ==
  mappings[CHOOSE i \in DOMAIN mappings :
             /\ UpperSeq(mappings[i].target_name) = key
             /\ \A j \in DOMAIN mappings : UpperSeq(mappings[j].target_name) = key => j <= i].source

\* the column a name stands for: the mapped source if the name is a mapping
\* target, the name itself otherwise
SourceColumn(mappings, name, from_clause) ==
  IF HasTarget(mappings, UpperSeq(name))
  THEN _render_column_ref(TargetExpr(mappings, UpperSeq(name)), from_clause)
  ELSE _render_column_ref(name, from_clause)

GroupByColumn(mappings, name, from_clause) ==
  IF HasTarget(mappings, UpperSeq(name))
  THEN _render_column_ref(TargetExpr(mappings, UpperSeq(name)), from_clause)
  ELSE _quote_identifier(name)

GroupByOf(mappings, kept, from_clause) ==
  [i \in DOMAIN kept |-> GroupByColumn(mappings, kept[i], from_clause)]

GroupByCols(node, from_clause) ==
  GroupByOf(node.mappings,
            SelectSeq(node.group_by, LAMBDA c : UpperSeq(c) \notin calc_col_names(node)),
            from_clause)

MappingItemsOf(kept, from_clause) ==
  [i \in DOMAIN kept |->
     _render_column_ref(kept[i].source, from_clause) \o AsWord \o _quote_identifier(kept[i].target_name)]

\* the pass-through mappings: neither calculated nor aggregated
PassThrough(node) ==
  SelectSeq(node.mappings,
            LAMBDA m : /\ UpperSeq(m.target_name) \notin calc_col_names(node)
                       /\ UpperSeq(m.target_name) \notin aggregated_col_names(node))

AggregationItems(node, from_clause) ==
  [i \in DOMAIN node.aggregations |->
     UpperSeq(node.aggregations[i].function) \o <<"(">>
       \o SourceColumn(node.mappings, node.aggregations[i].column, from_clause) \o <<")">>
       \o AsWord \o _quote_identifier(node.aggregations[i].target_name)]

StarIfEmpty(items) == IF items = <<>> THEN <<<<"*">>>> ELSE items

SelectItems(node, from_clause) ==
  StarIfEmpty(MappingItemsOf(PassThrough(node), from_clause) \o AggregationItems(node, from_clause))

AggInner == <<"a", "g", "g", "_", "i", "n", "n", "e", "r">>

InnerStar == AggInner \o <<".", "*">>

OuterSelect(node) ==
  IF node.calculated_attributes = <<>> THEN <<>>
  ELSE <<InnerStar>> \o
       [i \in DOMAIN node.calculated_attributes |->
          _render_column_ref(node.calculated_attributes[i].column, AggInner) \o AsWord
            \o _quote_identifier(node.calculated_attributes[i].name)]

PlaceholderSelect == <<"1">> \o AsWord \o <<"p", "l", "a", "c", "e", "h", "o", "l", "d", "e", "r">>

InitAgg ==
  /\ pc = "agg_start"
  /\ aggNode \in AggregationNodes
  /\ select_items = <<>> /\ group_by_cols = <<>> /\ outer_select = <<>>
  /\ scenario = [node_ids |-> <<>>] /\ ordered = <<>> /\ ctes = <<>> /\ cte_aliases = <<>>
  /\ warnings = <<>> /\ outcome = NoOutcome
  /\ formula = <<>> /\ result = <<>> /\ iteration = 0 /\ outputs = <<>>
  /\ FiltersIdle
  /\ CleanIdle
  /\ CorrectorIdle
  /\ FromIdle
  /\ CatalogIdle
  /\ ParseIdle
  /\ InIdle
  /\ FnIdle
  /\ ProjIdle
  /\ UnionIdle

\* _render_aggregation(ctx, node)
RenderAggregation ==
  /\ pc = "agg_start"
  /\ IF aggNode.inputs = <<>>
     THEN /\ warnings' = Append(warnings, <<"AGGREGATION_WITHOUT_INPUTS", aggNode.node_id>>)
          /\ select_items' = <<PlaceholderSelect>>
          /\ group_by_cols' = <<>> /\ outer_select' = <<>>
     ELSE /\ select_items' = SelectItems(aggNode, LStripHash(aggNode.inputs[1]))
          /\ group_by_cols' = GroupByCols(aggNode, LStripHash(aggNode.inputs[1]))
          /\ outer_select' = OuterSelect(aggNode)
          /\ UNCHANGED warnings
  /\ pc' = "agg_rendered"
  /\ UNCHANGED <<aggNode, scenario, ordered, ctes, cte_aliases, outcome, elimVars, filterVars, cleanVars, corrVars, fromVars, catalogVars, parseVars, inVars, fnVars, projVars, unionVars>>

NextAgg == RenderAggregation

SpecAgg == InitAgg /\ [][NextAgg]_vars

\* ------------------------------------------------------------------------
\* Claim about aggregation nodes (checked under SpecAgg)
\* ------------------------------------------------------------------------
\* where the last " AS " of a select item starts, 0 if it has none
LastAs(item) ==
  IF \E k \in 1..(Len(item) - 3) : SubSeq(item, k, k + 3) = AsWord
  THEN CHOOSE k \in 1..(Len(item) - 3) :
         /\ SubSeq(item, k, k + 3) = AsWord
         /\ \A j \in (k + 1)..(Len(item) - 3) : SubSeq(item, j, j + 3) # AsWord
  ELSE 0

\* the column name a select item gives its column
ItemName(item) == IF LastAs(item) = 0 THEN item ELSE SubSeq(item, LastAs(item) + 4, Len(item))

ItemNames(items) == {ItemName(items[i]) : i \in DOMAIN items}

\* the column names of the rendered query: agg_inner.* stands for the columns
\* of the inner select list
RenderedNames ==
  IF outer_select = <<>> THEN ItemNames(select_items)
  ELSE (ItemNames(outer_select) \ {InnerStar}) \cup ItemNames(select_items)

PassThroughTargets(node) == {PassThrough(node)[i].target_name : i \in DOMAIN PassThrough(node)}

AggregationTargets(node) == {node.aggregations[i].target_name : i \in DOMAIN node.aggregations}

\* _render_aggregation has rendered a node that has an input and selects at
\* least one column by name
AggRendered == pc = "agg_rendered" /\ aggNode.inputs # <<>> /\ select_items # <<<<"*">>>>

\* C10: the column names of the rendered select list of an aggregation node
\* are exactly its pass-through mapping targets, its group-by columns and its
\* aggregation targets, and no name is both a group-by column and an
\* aggregation target.
C10_SelectListIsUnion ==
  AggRendered =>
    /\ RenderedNames =
         {_quote_identifier(n) :
            n \in PassThroughTargets(aggNode) \cup Range(aggNode.group_by) \cup AggregationTargets(aggNode)}
    /\ Range(aggNode.group_by) \cap AggregationTargets(aggNode) = {}

\* ------------------------------------------------------------------------
\* Filters: _render_filters and _negate_operator (renderer.py)
\* ------------------------------------------------------------------------

\* the most predicates a node of the model carries
MaxFilters == 1

\* the operators _map_filter_operator hands on: the mapped ones, the second
\* spelling of inequality, the negated forms, an operator in lower case and
\* one the mapping does not know (it is passed on in upper case)
Operators ==
  {<<"=">>, <<"<", ">">>, <<"!", "=">>, <<">">>, <<">", "=">>, <<"<">>, <<"<", "=">>,
   <<"I", "N">>, <<"N", "O", "T", " ", "I", "N">>, <<"L", "I", "K", "E">>, <<"N", "O", "T", " ", "L", "I", "K", "E">>, <<"B", "E", "T", "W", "E", "E", "N">>, <<"N", "O", "T", " ", "B", "E", "T", "W", "E", "E", "N">>,
   <<"l", "i", "k", "e">>, <<"C", "P">>}

\* Predicate (models.py): left is a column name, right the text of a numeric
\* literal or None
Predicate(kind, operator_, right, including) ==
  [kind |-> kind, left |-> <<"A">>, operator |-> operator_, right |-> right, including |-> including]

Predicates ==
  {Predicate("COMPARISON", o, r, inc) :
     o \in Operators \cup {None}, r \in {<<"1">>, None}, inc \in BOOLEAN}
    \cup {Predicate("IS_NULL", None, None, TRUE), Predicate("BETWEEN", None, None, TRUE)}

\* negation_map of _negate_operator, an insertion-ordered dict
negation_map ==
  << <<<<"=">>, <<"<", ">">>>>, <<<<"<", ">">>, <<"=">>>>, <<<<"!", "=">>, <<"=">>>>,
     <<<<">">>, <<"<", "=">>>>, <<<<">", "=">>, <<"<">>>>, <<<<"<">>, <<">", "=">>>>, <<<<"<", "=">>, <<">">>>>,
     <<<<"I", "N">>, <<"N", "O", "T", " ", "I", "N">>>>, <<<<"N", "O", "T", " ", "I", "N">>, <<"I", "N">>>>,
     <<<<"L", "I", "K", "E">>, <<"N", "O", "T", " ", "L", "I", "K", "E">>>>, <<<<"N", "O", "T", " ", "L", "I", "K", "E">>, <<"L", "I", "K", "E">>>>,
     <<<<"B", "E", "T", "W", "E", "E", "N">>, <<"N", "O", "T", " ", "B", "E", "T", "W", "E", "E", "N">>>>, <<<<"N", "O", "T", " ", "B", "E", "T", "W", "E", "E", "N">>, <<"B", "E", "T", "W", "E", "E", "N">>>> >>

\* a negation that wraps every operator in NOT
_negate_operator_NotPrefix(o) == <<"N", "O", "T", " ">> \o o

\* _negate_operator: the entry of the upper-cased operator, else NOT <op>
_negate_operator(o) ==
  IF HasKey(negation_map, UpperSeq(o)) THEN Get(negation_map, UpperSeq(o))
  ELSE <<"N", "O", "T", " ">> \o o

\* _render_literal for the text of a number without a leading zero
_render_literal(value) == value

\* the operator _render_filters uses for a comparison predicate
FilterOperator(pred) ==
  IF pred.including THEN (IF pred.operator = None THEN <<"=">> ELSE pred.operator)
  ELSE _negate_operator(IF pred.operator = None THEN <<"=">> ELSE pred.operator)

\* the conditions list of _render_filters: a comparison without a right side
\* adds nothing, and so does a kind the function does not know
RECURSIVE FilterConditions(_)
FilterConditions(fs) ==
  IF fs = <<>> THEN <<>>
  ELSE IF Head(fs).kind = "COMPARISON" /\ Head(fs).right # None
    THEN <<_render_column_ref(Head(fs).left, None) \o <<" ">> \o FilterOperator(Head(fs))
             \o <<" ">> \o _render_literal(Head(fs).right)>> \o FilterConditions(Tail(fs))
  ELSE IF Head(fs).kind = "IS_NULL"
    THEN <<_render_column_ref(Head(fs).left, None) \o <<" ", "I", "S", " ", "N", "U", "L", "L">>>> \o FilterConditions(Tail(fs))
  ELSE FilterConditions(Tail(fs))

\* the warnings _render_filters appends: one per predicate of unknown kind
RECURSIVE FilterWarnings(_)
FilterWarnings(fs) ==
  IF fs = <<>> THEN <<>>
  ELSE IF Head(fs).kind \in {"COMPARISON", "IS_NULL"} THEN FilterWarnings(Tail(fs))
  ELSE << <<"UNSUPPORTED_PREDICATE", Head(fs).kind>> >> \o FilterWarnings(Tail(fs))

\* " AND ".join(conditions)
RECURSIVE JoinAnd(_)
JoinAnd(conditions) ==
  IF conditions = <<>> THEN <<>>
  ELSE IF Len(conditions) = 1 THEN conditions[1]
  ELSE conditions[1] \o <<" ", "A", "N", "D", " ">> \o JoinAnd(Tail(conditions))

_render_filters(fs) == JoinAnd(FilterConditions(fs))

InitFilter ==
  /\ pc = "filters"
  /\ filters \in SeqsUpTo(Predicates, MaxFilters)
  /\ op \in Operators
  /\ where_clause = <<>>
  /\ negated = <<>>
  /\ warnings = <<>>
  /\ scenario = [node_ids |-> <<>>] /\ ordered = <<>> /\ ctes = <<>> /\ cte_aliases = <<>> /\ outcome = NoOutcome
  /\ formula = <<>> /\ result = <<>> /\ iteration = 0 /\ outputs = <<>>
  /\ aggNode = NoAgg /\ select_items = <<>> /\ group_by_cols = <<>> /\ outer_select = <<>>
  /\ CleanIdle
  /\ CorrectorIdle
  /\ FromIdle
  /\ CatalogIdle
  /\ ParseIdle
  /\ InIdle
  /\ FnIdle
  /\ ProjIdle
  /\ UnionIdle

\* _render_filters(ctx, filters)
RenderFilters ==
  /\ pc = "filters"
  /\ where_clause' = _render_filters(filters)
  /\ warnings' = warnings \o FilterWarnings(filters)
  /\ pc' = "filters_rendered"
  /\ UNCHANGED <<filters, op, negated, scenario, ordered, ctes, cte_aliases, outcome, elimVars, aggVars, cleanVars, corrVars, fromVars, catalogVars, parseVars, inVars, fnVars, projVars, unionVars>>

\* _negate_operator(op), then _negate_operator of what it returned
NegateOperator ==
  /\ Len(negated) < 2
  /\ negated' = Append(negated, _negate_operator(IF negated = <<>> THEN op ELSE negated[1]))
  /\ UNCHANGED <<pc, filters, where_clause, op, renderVars, elimVars, aggVars, cleanVars, corrVars, fromVars, catalogVars, parseVars, inVars, fnVars, projVars, unionVars>>

NextFilter == RenderFilters \/ NegateOperator

SpecFilter == InitFilter /\ [][NextFilter]_vars

\* the seven comparison operators with the operator that holds exactly when
\* the first does not
InversePairs ==
  {<<<<"=">>, <<"<", ">">>>>, <<<<"<", ">">>, <<"=">>>>, <<<<"!", "=">>, <<"=">>>>,
   <<<<">">>, <<"<", "=">>>>, <<<<">", "=">>, <<"<">>>>, <<<<"<">>, <<">", "=">>>>, <<<<"<", "=">>, <<">">>>>}

\* the operators whose negation SQL spells with NOT
NotPairs ==
  {<<<<"I", "N">>, <<"N", "O", "T", " ", "I", "N">>>>, <<<<"N", "O", "T", " ", "I", "N">>, <<"I", "N">>>>, <<<<"L", "I", "K", "E">>, <<"N", "O", "T", " ", "L", "I", "K", "E">>>>,
   <<<<"N", "O", "T", " ", "L", "I", "K", "E">>, <<"L", "I", "K", "E">>>>, <<<<"B", "E", "T", "W", "E", "E", "N">>, <<"N", "O", "T", " ", "B", "E", "T", "W", "E", "E", "N">>>>,
   <<<<"N", "O", "T", " ", "B", "E", "T", "W", "E", "E", "N">>, <<"B", "E", "T", "W", "E", "E", "N">>>>, <<<<"l", "i", "k", "e">>, <<"N", "O", "T", " ", "L", "I", "K", "E">>>>}

\* a comparison predicate with including = false and both sides present
Excluding(pred) == pred.kind = "COMPARISON" /\ ~pred.including /\ pred.right # None

FiltersRendered == pc = "filters_rendered" /\ filters # <<>>

\* the condition a predicate renders to when op2 is its operator
ConditionWith(pred, op2) == <<"A", " ">> \o op2 \o <<" ">> \o pred.right

\* C11 as stated: for every comparison predicate with including = false the
\* rendered condition uses the inverted comparison operator and holds no NOT.
C11_NeverNot ==
  (FiltersRendered /\ \A i \in DOMAIN filters : Excluding(filters[i]))
    => ~Contains(where_clause, <<"N", "O", "T">>)

\* C11, amended: a comparison predicate with including = false renders with
\* the logically inverted operator and no NOT when its operator is one of
\* =, <>, !=, <, <=, >, >= (an absent operator counts as =, so = gives <>);
\* IN, LIKE and BETWEEN and their NOT forms swap with each other; any other
\* operator is prefixed with NOT.
C11_InvertedOrNotForm ==
  (FiltersRendered /\ \A i \in DOMAIN filters : Excluding(filters[i]))
    => \E ops \in [DOMAIN filters -> Operators \cup {<<"N", "O", "T", " ", "C", "P">>}] :
         /\ where_clause = JoinAnd([i \in DOMAIN filters |-> ConditionWith(filters[i], ops[i])])
         /\ \A i \in DOMAIN filters :
              \E o \in {IF filters[i].operator = None THEN <<"=">> ELSE filters[i].operator} :
                \/ <<o, ops[i]>> \in InversePairs /\ ~Contains(ops[i], <<"N", "O", "T">>)
                \/ <<o, ops[i]>> \in NotPairs
                \/ /\ o \notin {p[1] : p \in InversePairs \cup NotPairs}
                   /\ ops[i] = <<"N", "O", "T", " ">> \o o

\* an excluding equality has been rendered as an inequality
C11_Witness ==
  /\ FiltersRendered
  /\ filters[1] = Predicate("COMPARISON", <<"=">>, <<"1">>, FALSE)
  /\ where_clause = <<"A", " ", "<", ">", " ", "1">>

NegatedTwice == Len(negated) = 2

\* C12: negation is an involution: negating an operator and then negating
\* the result gives the operator back.
C12_Involution == NegatedTwice => negated[2] = op

\* ------------------------------------------------------------------------
\* The warnings render_scenario returns
\* ------------------------------------------------------------------------
\* the entries of the returned warnings list: ctx.warnings as the renderer
\* left it, then what lines 294-299 append to it after a validation without
\* errors: each pass's warnings and, prefixed "Info: ", its info messages
ReturnedWarnings == {<<"ctx", warnings[i]>> : i \in DOMAIN warnings} \cup outcome.advice

\* render_scenario has been called directly and is through
Compiled == pc \in {"done", "done_unvalidated"}

\* one data source, one node n1 of the given kind reading the given inputs,
\* and a logical model that names n1 as terminal
SingleNode(s, kind, inputs) ==
  /\ s.data_sources = {DsId}
  /\ s.node_ids = << <<"n1">> >>
  /\ s.kind[<<"n1">>] = kind
  /\ s.inputs[<<"n1">>] = inputs
  /\ s.base_node_id = <<"n1">>

\* C13: compiling one projection over one data source, named as terminal by
\* the logical model, yields a statement that selects from S.T, and the
\* returned warnings list is empty.
C13_CleanCompile ==
  (Compiled /\ SingleNode(scenario, [kind |-> "PROJECTION", conditions |-> 0], <<DsId>>)) =>
     /\ outcome.kind = "sql"
     /\ Len(ctes) = 1 /\ ctes[1].body.froms = <<[kind |-> "table", name |-> DsId]>>
     /\ outcome.final_from = [kind |-> "cte", name |-> ctes[1].alias]
     /\ ReturnedWarnings = {}

\* an entry of the returned list that reports a cartesian product: the
\* renderer's "Join <id> creates cartesian product (no join conditions)" or
\* the validator's "Cartesian product detected (JOIN ON 1=1) ..."
MentionsCartesian(e) == e[2][1] \in {"CARTESIAN", "CARTESIAN_PRODUCT"}

\* C14: compiling a join of two inputs without join conditions succeeds,
\* joins ON 1=1, and exactly one returned warning mentions the cartesian
\* product.
C14_OneCartesianWarning ==
  (Compiled /\ SingleNode(scenario, [kind |-> "JOIN", conditions |-> 0], <<DsId, DsId>>)) =>
     /\ outcome.kind = "sql"
     /\ Len(ctes) = 1 /\ ctes[1].body.cartesian
     /\ Cardinality({e \in ReturnedWarnings : MentionsCartesian(e)}) = 1

\* ------------------------------------------------------------------------
\* Reference cleaning on its own: the two _clean_ref functions, applied to a
\* reference and then to their own result
\* ------------------------------------------------------------------------

\* the most digits of a numeric segment index
MaxIndexDigits == 2

\* the three prefixes the parsers recognise
RefPrefixes == {<<"#", "/", "/">>, <<"#", "/">>, <<"#">>}

\* no segment index, or digits (here 0 and 1) followed by a slash
SegmentIndexes ==
  {<<>>} \cup {d \o <<"/">> : d \in UNION {[1..k -> {"0", "1"}] : k \in 1..MaxIndexDigits}}

\* node names as the documents carry them: plain, with a space inside, and
\* a path of two segments
RefNames == {<<"a">>, <<"a", " ", "b">>, <<"a", "/", "b">>}

\* the white space an attribute value may carry around the reference
Paddings == {<<>>, <<" ">>}

References ==
  {lead \o p \o i \o n \o trail :
     lead \in Paddings, p \in RefPrefixes, i \in SegmentIndexes, n \in RefNames, trail \in Paddings}

InitClean ==
  /\ pc = "clean"
  /\ reference \in References
  /\ cleaned = <<>> /\ cv_cleaned = <<>>
  /\ scenario = [node_ids |-> <<>>] /\ ordered = <<>> /\ ctes = <<>> /\ cte_aliases = <<>>
  /\ warnings = <<>> /\ outcome = NoOutcome
  /\ formula = <<>> /\ result = <<>> /\ iteration = 0 /\ outputs = <<>>
  /\ aggNode = NoAgg /\ select_items = <<>> /\ group_by_cols = <<>> /\ outer_select = <<>>
  /\ FiltersIdle
  /\ CorrectorIdle
  /\ FromIdle
  /\ CatalogIdle
  /\ ParseIdle
  /\ InIdle
  /\ FnIdle
  /\ ProjIdle
  /\ UnionIdle

\* scenario_parser._clean_ref(reference), then _clean_ref of what it returned
CleanRef ==
  /\ pc = "clean"
  /\ Len(cleaned) < 2
  /\ cleaned' = Append(cleaned, _clean_ref(IF cleaned = <<>> THEN reference ELSE cleaned[1]))
  /\ UNCHANGED <<pc, reference, cv_cleaned, renderVars, elimVars, aggVars, filterVars, corrVars, fromVars, catalogVars, parseVars, inVars, fnVars, projVars, unionVars>>

\* column_view_parser._clean_ref(reference), then _clean_ref of what it returned
CvCleanRef ==
  /\ pc = "clean"
  /\ Len(cv_cleaned) < 2
  /\ cv_cleaned' = Append(cv_cleaned, cv_clean_ref(IF cv_cleaned = <<>> THEN reference ELSE cv_cleaned[1]))
  /\ UNCHANGED <<pc, reference, cleaned, renderVars, elimVars, aggVars, filterVars, corrVars, fromVars, catalogVars, parseVars, inVars, fnVars, projVars, unionVars>>

NextClean == CleanRef \/ CvCleanRef

SpecClean == InitClean /\ [][NextClean]_vars

\* C15: for a reference that carries one of the three prefixes, with or
\* without a numeric segment index, cleaning the cleaned reference again
\* returns it unchanged, in the scenario parser and in the column-view parser.
C15_CleanIdempotent ==
  /\ Len(cleaned) = 2 => cleaned[2] = cleaned[1]
  /\ Len(cv_cleaned) = 2 => cv_cleaned[2] = cv_cleaned[1]

\* a same-document reference with a segment index and a two-segment name has
\* been cleaned twice by both parsers
C15_Witness ==
  /\ reference = <<"#", "/", "0", "/", "a", "/", "b">>
  /\ Len(cleaned) = 2 /\ cleaned[1] = <<"a", "/", "b">>
  /\ Len(cv_cleaned) = 2 /\ cv_cleaned[1] = <<"0", "/", "a", "/", "b">>

\* the nodes the loop of _topological_sort never consumes: those on a cycle
\* of the cleaned graph and those that depend on one
Unconsumed(s) ==
  {n \in Nodes(s) : \E m \in (TransDeps(s, n) \cup {n}) \cap Nodes(s) : m \in TransDeps(s, m)}

\* C16: when the node graph has a cycle the sort still returns a list: every
\* data-source id and node id exactly once, the ids it could consume first
\* and in dependency order, the unconsumed remainder after them.
C16_CycleTolerated ==
  (Sorted /\ ~Acyclic(scenario)) =>
     /\ Len(ordered) = Cardinality(AllIds(scenario))
     /\ Range(ordered) = AllIds(scenario)
     /\ \A i \in 1..Len(ordered) :
          ordered[i] \notin Unconsumed(scenario) =>
            /\ ordered[i] \in Nodes(scenario) =>
                 \A d \in TransDeps(scenario, ordered[i]) : Before(ordered, d, ordered[i])
            /\ \A j \in 1..Len(ordered) : ordered[j] \in Unconsumed(scenario) => i < j

\* a sorted scenario in which one node is on a cycle and another one, which
\* reads the data source, is not
C16_Witness ==
  /\ pc = "sorted" /\ ~Acyclic(scenario)
  /\ \E n \in Nodes(scenario) : n \notin Unconsumed(scenario) /\ Deps(scenario, n) # {}
  /\ ordered[Len(ordered)] \in Unconsumed(scenario)

MaxIssues == 2

\* the operand alternatives of string_concat_pattern (under re.IGNORECASE):
\* text in single quotes, in double quotes, in backticks (the token
\* "backtick" stands for that character) and [A-Z_][A-Z0-9_]*
ConcatOperands ==
  << Lits(<<"'">>) \o <<Star(NotCls({"'"}))>> \o Lits(<<"'">>),
     Lits(<<"\"">>) \o <<Star(NotCls({"\""}))>> \o Lits(<<"\"">>),
     Lits(<<"backtick">>) \o <<Star(NotCls({"backtick"}))>> \o Lits(<<"backtick">>),
     <<One(LetterOrUnderscore),
       Star(Cls(Range(UpperLetters) \cup Range(LowerLetters) \cup Digits \cup {"_"}))>> >>

\* group 1 and the operator: operand \s* \+
ConcatPrefix(l) == ConcatOperands[l] \o <<Star(Ws)>> \o Lits(<<"+">>)

\* string_concat_pattern with its two alternations multiplied out, in the
\* order the backtracking search tries them
string_concat_pattern ==
  [a \in 1..16 |-> ConcatPrefix(((a - 1) \div 4) + 1) \o <<Star(Ws)>> \o ConcatOperands[((a - 1) % 4) + 1]]

\* \bIF\s*\(  under re.IGNORECASE
if_pattern == <<WordBoundary>> \o LitsI(<<"I", "F">>) \o <<Star(Ws)>> \o Lits(<<"(">>)

\* list(re.finditer(alts, s)) from position from
RECURSIVE FindAllFrom(_, _, _)
RECURSIVE FindAllAt(_, _, _)
FindAllAt(alts, s, m) ==
  IF m = NoMatch THEN <<>> ELSE <<m>> \o FindAllFrom(alts, s, m.end)

FindAllFrom(alts, s, from) == FindAllAt(alts, s, SearchAlt(alts, s, from))

\* the position of the + of a match of string_concat_pattern
PlusAt(s, m) == MatchEnd(ConcatPrefix(((m.alt - 1) \div 4) + 1), 1, s, m.start) - 1

Correction(issue_code, original_text, corrected_text) ==
  [issue_code |-> issue_code, original_text |-> original_text, corrected_text |-> corrected_text]

\* the text a match of string_concat_pattern is replaced with: group 1, ||, group 2
ConcatCorrected(s, m, plus) == SubSeq(s, m.start, plus - 1) \o <<"|", "|">> \o SubSeq(s, plus + 1, m.end - 1)

\* the loop over reversed(matches) of fix_string_concatenation: the statement
\* with every match replaced, and the corrections, last match first
RECURSIVE ConcatLoop(_, _, _, _)
ConcatLoop(s, matches, k, from) ==
  IF k > Len(matches) THEN [sql |-> SubSeq(s, from, Len(s)), corrections |-> <<>>]
  ELSE LET m == matches[k]
           fixed == ConcatCorrected(s, m, PlusAt(s, m))
           rest == ConcatLoop(s, matches, k + 1, m.end)
       IN [sql |-> SubSeq(s, from, m.start - 1) \o fixed \o rest.sql,
           corrections |-> Append(rest.corrections,
                                  Correction("STRING_CONCAT_PLUS", SubSeq(s, m.start, m.end - 1), fixed))]

ConcatCodes == {"HANA_STRING_CONCAT", "STRING_CONCAT_PLUS", "HANA_COMPATIBILITY"}

FunctionCodes == {"HANA_IF_FUNCTION", "IF_FUNCTION", "HANA_COMPATIBILITY", "FUNCTION_SYNTAX"}

\* fix_string_concatenation: nothing without an issue of one of its codes
fix_string_concatenation(s, iss) ==
  IF Range(iss) \cap ConcatCodes = {} THEN [sql |-> s, corrections |-> <<>>]
  ELSE ConcatLoop(s, FindAllFrom(string_concat_pattern, s, 1), 1, 1)

\* the loop over reversed(matches) of fix_function_calls; a match that
\* follows an F is left alone
RECURSIVE FunctionLoop(_, _, _, _)
FunctionLoop(s, matches, k, from) ==
  IF k > Len(matches) THEN [sql |-> SubSeq(s, from, Len(s)), corrections |-> <<>>]
  ELSE LET m == matches[k]
           rest == FunctionLoop(s, matches, k + 1, m.end)
       IN IF m.start > 1 /\ Upper(s[m.start - 1]) = "F"
          THEN [sql |-> SubSeq(s, from, m.end - 1) \o rest.sql, corrections |-> rest.corrections]
          ELSE [sql |-> SubSeq(s, from, m.start - 1) \o <<"I", "F", "F", "(">> \o rest.sql,
                corrections |-> Append(rest.corrections,
                                       Correction("HANA_IF_FUNCTION", SubSeq(s, m.start, m.end - 1), <<"I", "F", "F", "(">>))]

\* fix_function_calls: nothing without an issue of one of its codes
fix_function_calls(s, iss) ==
  IF Range(iss) \cap FunctionCodes = {} THEN [sql |-> s, corrections |-> <<>>]
  ELSE FunctionLoop(s, FindAllFrom(<<if_pattern>>, s, 1), 1, 1)

\* the issue codes of the corrections, in order
IssueCodes(corrections) == [i \in DOMAIN corrections |-> corrections[i].issue_code]

\* [issue for issue in all_issues if issue.code not in fixed_issue_codes]
RECURSIVE IssuesRemaining(_, _)
IssuesRemaining(iss, fixed_issue_codes) ==
  IF iss = <<>> THEN <<>>
  ELSE (IF Head(iss) \in fixed_issue_codes THEN <<>> ELSE <<Head(iss)>>)
         \o IssuesRemaining(Tail(iss), fixed_issue_codes)

\* auto_correct_sql for issues none of which has a reserved-keyword code:
\* fix_reserved_keywords returns at once, the concatenation and function
\* fixers run in this order, and the remaining fixers change nothing
CorrectionResult(s, iss, concat, func) ==
  [kind |-> "corrected",
   corrected_sql |-> func.sql,
   corrections_applied |-> concat.corrections \o func.corrections,
   issues_fixed |-> IssueCodes(concat.corrections) \o IssueCodes(func.corrections),
   issues_remaining |->
     IssuesRemaining(iss, Range(IssueCodes(concat.corrections)) \cup Range(IssueCodes(func.corrections)))]

auto_correct_sql(s, iss) ==
  CHOOSE r \in {CorrectionResult(s, iss, c, fix_function_calls(c.sql, iss)) :
                  c \in {fix_string_concatenation(s, iss)}} : TRUE

\* the one-line statements of the model: with and without a + between
\* operands, with and without an IF( call
SqlTexts ==
  {<<"1">>, <<"'", "a", "'", " ", "+", " ", "'", "b", "'">>, <<"a", "+", "b">>, <<"a", " ", "+", " ", "b", " ", "+", " ", "c">>, <<"I", "F", "(", "x", ")">>, <<"i", "f", " ", "(", "x", ")">>, <<"I", "F", "F", "(", "x", ")">>,
   <<"'", "a", "'", "+", "b", ",", " ", "I", "F", "(", "x", ")">>}

\* the issue codes of the model: those the two fixers look for and one that
\* no fixer handles
Codes == ConcatCodes \cup FunctionCodes \cup {"DUPLICATE_CTE"}

InitCorrect ==
  /\ pc = "correct"
  /\ sql \in SqlTexts
  /\ all_issues \in SeqsUpTo(Codes, MaxIssues)
  /\ correction_result = [kind |-> "none"]
  /\ scenario = [node_ids |-> <<>>] /\ ordered = <<>> /\ ctes = <<>> /\ cte_aliases = <<>>
  /\ warnings = <<>> /\ outcome = [kind |-> "none"]
  /\ formula = <<>> /\ result = <<>> /\ iteration = 0 /\ outputs = <<>>
  /\ aggNode = [kind |-> "none"] /\ select_items = <<>> /\ group_by_cols = <<>> /\ outer_select = <<>>
  /\ FiltersIdle
  /\ CleanIdle
  /\ FromIdle
  /\ CatalogIdle
  /\ ParseIdle
  /\ InIdle
  /\ FnIdle
  /\ ProjIdle
  /\ UnionIdle

\* auto_correct_sql(sql, validation_result)
AutoCorrectSql ==
  /\ pc = "correct"
  /\ correction_result' = auto_correct_sql(sql, all_issues)
  /\ pc' = "corrected"
  /\ UNCHANGED <<sql, all_issues, renderVars, elimVars, aggVars, filterVars, cleanVars, fromVars, catalogVars, parseVars, inVars, fnVars, projVars, unionVars>>

NextCorrect == AutoCorrectSql

SpecCorrect == InitCorrect /\ [][NextCorrect]_vars

Corrected == pc = "corrected"

\* the statement holds a + between operands or an IF( call
HasFixablePattern(s) ==
  \/ SearchAlt(string_concat_pattern, s, 1) # NoMatch
  \/ re_search(if_pattern, s) # NoMatch

\* C18: the fixes fire without validation: for a statement with a + between
\* operands or an IF( call and an empty validation result, auto-correction
\* applies the fix.
C18_FixesWithoutIssues ==
  (Corrected /\ all_issues = <<>> /\ HasFixablePattern(sql)) =>
     /\ correction_result.corrections_applied # <<>>
     /\ correction_result.corrected_sql # sql

\* a correction was applied for an issue of this code: the fixer the code
\* switches on recorded one
AppliedFor(code) ==
  \E i \in DOMAIN correction_result.corrections_applied :
    \/ code \in ConcatCodes
         /\ correction_result.corrections_applied[i].issue_code = "STRING_CONCAT_PLUS"
    \/ code \in FunctionCodes
         /\ correction_result.corrections_applied[i].issue_code = "HANA_IF_FUNCTION"

\* C19: after auto-correction every issue of the validation result has
\* exactly one outcome: a recorded correction was applied for it, or it is
\* among the remaining issues.
C19_ExactlyOneOutcome ==
  Corrected =>
     \A i \in DOMAIN all_issues :
        AppliedFor(all_issues[i]) # (all_issues[i] \in Range(correction_result.issues_remaining))

\* ------------------------------------------------------------------------
\* Table references: RenderContext.resolve_schema and the data-source
\* branch of _render_from (renderer.py)
\* ------------------------------------------------------------------------

\* the most entries of the schema-override mapping
MaxOverrides == 1

\* DataSource (models.py): a table S.T, a source without a schema, a
\* calculation view whose schema is a package path, a table named like one
DataSources ==
  {[source_type |-> t, schema_name |-> sch, object_name |-> o] :
     t \in {"TABLE", "CALCULATION_VIEW"},
     sch \in {<<"S">>, None, <<"p", ".", "q">>},
     o \in {<<"T">>, <<"C", "V", "_", "X">>}}

\* schema_overrides: entries for schema S
SchemaOverrides == SeqsUpTo({<<<<"S">>, <<"O">>>>}, MaxOverrides)

RenderContexts ==
  {[database_mode |-> m, target_schema |-> ts, schema_overrides |-> so] :
     m \in {"SNOWFLAKE", "HANA"}, ts \in {None, <<"T", "S">>}, so \in SchemaOverrides}

\* RenderContext.resolve_schema
resolve_schema(ctx, schema_name) ==
  IF ctx.target_schema # None THEN ctx.target_schema
  ELSE IF HasKey(ctx.schema_overrides, schema_name) THEN Get(ctx.schema_overrides, schema_name)
  ELSE schema_name

SysBic == <<"\"", "_", "S", "Y", "S", "_", "B", "I", "C", "\"", ".">>

\* the package of a calculation view: the schema name when it holds a dot,
\* else what the package mapper knows
PackageOf(ds, package) ==
  IF ds.schema_name # None /\ "." \in Range(ds.schema_name) THEN ds.schema_name ELSE package

\* lines 1018-1022: a regular table or view
RegularReference(ctx, ds) ==
  IF resolve_schema(ctx, ds.schema_name) # None
  THEN _quote_identifier(resolve_schema(ctx, ds.schema_name)) \o <<".">> \o _quote_identifier(ds.object_name)
  ELSE _quote_identifier(ds.object_name)

\* _render_from for an input that names a data source: the reference and
\* the warnings it appends
RenderFromDataSource(ctx, ds, package) ==
  IF ctx.database_mode = "HANA" /\ ds.source_type = "CALCULATION_VIEW"
  THEN IF PackageOf(ds, package) # None
       THEN [from |-> SysBic \o _quote_identifier(PackageOf(ds, package) \o <<"/">> \o ds.object_name),
             w |-> <<>>]
       ELSE [from |-> SysBic \o _quote_identifier(ds.object_name),
             w |-> << <<"PACKAGE_NOT_FOUND", ds.object_name>> >>]
  ELSE IF ctx.database_mode = "HANA" /\ StartsWith(ds.object_name, <<"C", "V", "_">>)
  THEN IF PackageOf(ds, package) # None
       THEN [from |-> SysBic \o <<"\"">> \o PackageOf(ds, package) \o <<"/">> \o ds.object_name \o <<"\"">>,
             w |-> <<>>]
       ELSE [from |-> SysBic \o <<"\"">> \o ds.object_name \o <<"\"">>,
             w |-> << <<"PACKAGE_NOT_FOUND", ds.object_name>> >>]
  ELSE [from |-> RegularReference(ctx, ds), w |-> <<>>]

InitFrom ==
  /\ pc = "from"
  /\ render_ctx \in RenderContexts
  /\ data_source \in DataSources
  /\ mapped_package \in {None, <<"p", "k", "g">>}
  /\ table_ref = <<>>
  /\ scenario = [node_ids |-> <<>>] /\ ordered = <<>> /\ ctes = <<>> /\ cte_aliases = <<>>
  /\ warnings = <<>> /\ outcome = [kind |-> "none"]
  /\ formula = <<>> /\ result = <<>> /\ iteration = 0 /\ outputs = <<>>
  /\ aggNode = [kind |-> "none"] /\ select_items = <<>> /\ group_by_cols = <<>> /\ outer_select = <<>>
  /\ FiltersIdle
  /\ CleanIdle
  /\ CorrectorIdle
  /\ CatalogIdle
  /\ ParseIdle
  /\ InIdle
  /\ FnIdle
  /\ ProjIdle
  /\ UnionIdle

\* _render_from(ctx, input_id) for an input_id of scenario.data_sources
RenderFrom ==
  /\ pc = "from"
  /\ \E r \in {RenderFromDataSource(render_ctx, data_source, mapped_package)} :
       table_ref' = r.from /\ warnings' = warnings \o r.w
  /\ pc' = "from_rendered"
  /\ UNCHANGED <<render_ctx, data_source, mapped_package, scenario, ordered, ctes, cte_aliases,
                 outcome, elimVars, aggVars, filterVars, cleanVars, corrVars, catalogVars, parseVars, inVars, fnVars, projVars, unionVars>>

NextFrom == RenderFrom

SpecFrom == InitFrom /\ [][NextFrom]_vars

FromRendered == pc = "from_rendered"

\* C20: with a universal target schema configured, the reference rendered
\* for any data source uses that schema, whatever the data source's own
\* schema and the override mapping say.
C20_TargetSchemaEverywhere ==
  (FromRendered /\ render_ctx.target_schema # None) =>
     table_ref = _quote_identifier(render_ctx.target_schema) \o <<".">>
                     \o _quote_identifier(data_source.object_name)

\* ---------------------------------------------------------------------------
\* Rewrite-rule catalogs: get_pattern_catalog and get_function_catalog, each
\* wrapped by functools.lru_cache(maxsize=1), called by compilations that the
\* web routes run in thread-pool workers.
\* ---------------------------------------------------------------------------

MaxRequests == 2

Threads == {"w1", "w2"}

Catalogs == {"get_pattern_catalog", "get_function_catalog"}

\* the rules the resource of a catalog holds (patterns.yaml, functions.yaml)
Resource(c) ==
  IF c = "get_pattern_catalog" THEN {"now_minus_days"} ELSE {"LEFTSTR", "RIGHTSTR"}

\* the dict one run of a getter's body builds: a new object each time
LoadedCatalog(c, serial) == [catalog |-> c, object |-> serial, rules |-> Resource(c)]

IdleWorker == [pc |-> "idle", catalog |-> None, loaded |-> None, requests |-> 0, returned |-> <<>>]

InitCatalog ==
  /\ pc = "catalog"
  /\ catalog_cache = [c \in Catalogs |-> None]
  /\ load_calls = [c \in Catalogs |-> 0]
  /\ workers = [t \in Threads |-> IdleWorker]
  /\ scenario = [node_ids |-> <<>>] /\ ordered = <<>> /\ ctes = <<>> /\ cte_aliases = <<>>
  /\ warnings = <<>> /\ outcome = [kind |-> "none"]
  /\ formula = <<>> /\ result = <<>> /\ iteration = 0 /\ outputs = <<>>
  /\ aggNode = [kind |-> "none"] /\ select_items = <<>> /\ group_by_cols = <<>> /\ outer_select = <<>>
  /\ FiltersIdle
  /\ CleanIdle
  /\ CorrectorIdle
  /\ FromIdle
  /\ ParseIdle
  /\ InIdle
  /\ FnIdle
  /\ ProjIdle
  /\ UnionIdle

\* a compilation calls a getter and the cache holds the catalog: a hit
CacheHit(t, c) ==
  /\ pc = "catalog"
  /\ workers[t].pc = "idle"
  /\ workers[t].requests < MaxRequests
  /\ catalog_cache[c] # None
  /\ workers' = [workers EXCEPT ![t].requests = @ + 1,
                                ![t].returned = Append(@, catalog_cache[c])]
  /\ UNCHANGED <<pc, catalog_cache, load_calls>>
  /\ UNCHANGED <<renderVars, elimVars, aggVars, filterVars, cleanVars, corrVars, fromVars, parseVars, inVars, fnVars, projVars, unionVars>>

\* the cache is empty: a miss, the wrapper goes on to call the getter's body
CacheMiss(t, c) ==
  /\ pc = "catalog"
  /\ workers[t].pc = "idle"
  /\ workers[t].requests < MaxRequests
  /\ catalog_cache[c] = None
  /\ workers' = [workers EXCEPT ![t].requests = @ + 1,
                                ![t].pc = "loading",
                                ![t].catalog = c]
  /\ UNCHANGED <<pc, catalog_cache, load_calls>>
  /\ UNCHANGED <<renderVars, elimVars, aggVars, filterVars, cleanVars, corrVars, fromVars, parseVars, inVars, fnVars, projVars, unionVars>>

\* the body of the getter: reads the resource and builds the rules dict
LoadCatalog(t) ==
  /\ pc = "catalog"
  /\ workers[t].pc = "loading"
  /\ \E c \in {workers[t].catalog} :
       /\ load_calls' = [load_calls EXCEPT ![c] = @ + 1]
       /\ workers' = [workers EXCEPT ![t].pc = "storing",
                                     ![t].loaded = LoadedCatalog(c, load_calls[c] + 1)]
  /\ UNCHANGED <<pc, catalog_cache>>
  /\ UNCHANGED <<renderVars, elimVars, aggVars, filterVars, cleanVars, corrVars, fromVars, parseVars, inVars, fnVars, projVars, unionVars>>

\* back in the wrapper: the result is cached unless the key was added during
\* the call, and the caller is handed the result of its own call either way
StoreCatalog(t) ==
  /\ pc = "catalog"
  /\ workers[t].pc = "storing"
  /\ \E c \in {workers[t].catalog} :
       catalog_cache' = IF catalog_cache[c] = None
                          THEN [catalog_cache EXCEPT ![c] = workers[t].loaded]
                          ELSE catalog_cache
  /\ workers' = [workers EXCEPT ![t].pc = "idle",
                                ![t].catalog = None,
                                ![t].loaded = None,
                                ![t].returned = Append(@, workers[t].loaded)]
  /\ UNCHANGED <<pc, load_calls>>
  /\ UNCHANGED <<renderVars, elimVars, aggVars, filterVars, cleanVars, corrVars, fromVars, parseVars, inVars, fnVars, projVars, unionVars>>

NextCatalog ==
  \/ \E t \in Threads, c \in Catalogs : CacheHit(t, c)
  \/ \E t \in Threads, c \in Catalogs : CacheMiss(t, c)
  \/ \E t \in Threads : LoadCatalog(t)
  \/ \E t \in Threads : StoreCatalog(t)

SpecCatalog == InitCatalog /\ [][NextCatalog]_vars

\* C21: each catalog is loaded at most once per process, also when several
\* compilations request it concurrently, and every request returns that one
\* loaded catalog, whose rules stay those of the resource
C21_LoadedOnce ==
  pc = "catalog" =>
    \A c \in Catalogs :
      /\ load_calls[c] <= 1
      /\ \A t \in Threads : \A i \in DOMAIN workers[t].returned :
           workers[t].returned[i].catalog = c =>
             /\ workers[t].returned[i] = catalog_cache[c]
             /\ workers[t].returned[i].rules = Resource(c)

\* ---------------------------------------------------------------------------
\* Parsing the node elements of a document: scenario_parser._parse_nodes for
\* the Calculation:scenario dialect, column_view_parser._parse_view_nodes for
\* the ColumnView dialect.  An attribute is the set of its values: empty when
\* the element does not carry it (element.get returns None).
\* ---------------------------------------------------------------------------

MaxElements == 2

Dialects == {"scenario", "ColumnView"}

AttributeValues == {{}, {<<>>}, {<<"n1">>}}

NodeElements == [id : AttributeValues, name : AttributeValues]

XmlRoots == [dialect : Dialects, node_els : SeqsUpTo(NodeElements, MaxElements)]

\* Python truthiness of element.get(...): None and "" are falsy
Truthy(attribute) == attribute # {} /\ attribute # {<<>>}

\* column_view_parser._parse_view_node: node_name = name or id
ViewNodeName(node_el) == IF Truthy(node_el.name) THEN node_el.name ELSE node_el.id

\* scenario_parser._parse_nodes: node_id = node_el.get("id")
ScenarioNodeId(node_el) == node_el.id

InitParse ==
  /\ pc = "parse"
  /\ xml_root \in XmlRoots
  /\ node_index = 0
  /\ parsed_nodes = <<>>
  /\ parse_outcome = [kind |-> "none"]
  /\ scenario = [node_ids |-> <<>>] /\ ordered = <<>> /\ ctes = <<>> /\ cte_aliases = <<>>
  /\ warnings = <<>> /\ outcome = [kind |-> "none"]
  /\ formula = <<>> /\ result = <<>> /\ iteration = 0 /\ outputs = <<>>
  /\ aggNode = [kind |-> "none"] /\ select_items = <<>> /\ group_by_cols = <<>> /\ outer_select = <<>>
  /\ FiltersIdle
  /\ CleanIdle
  /\ CorrectorIdle
  /\ FromIdle
  /\ CatalogIdle
  /\ InIdle
  /\ FnIdle
  /\ ProjIdle
  /\ UnionIdle

\* one round of the loop over the node elements
ParseNode ==
  /\ pc = "parse"
  /\ node_index < Len(xml_root.node_els)
  /\ \E node_el \in {xml_root.node_els[node_index + 1]} :
       IF xml_root.dialect = "ColumnView"
       THEN IF ~Truthy(ViewNodeName(node_el))
            THEN /\ parse_outcome' = [kind |-> "error", error |-> "ValueError",
                                      message |-> "Encountered view node without identifier"]
                 /\ pc' = "parse_done"
                 /\ UNCHANGED parsed_nodes
            ELSE /\ parsed_nodes' = Put(parsed_nodes, ViewNodeName(node_el), node_index + 1)
                 /\ UNCHANGED <<pc, parse_outcome>>
       ELSE /\ parsed_nodes' = Put(parsed_nodes, ScenarioNodeId(node_el), node_index + 1)
            /\ UNCHANGED <<pc, parse_outcome>>
  /\ node_index' = node_index + 1
  /\ UNCHANGED <<xml_root, renderVars, elimVars, aggVars, filterVars, cleanVars, corrVars, fromVars, catalogVars, inVars, fnVars, projVars, unionVars>>

\* the loop is over: the parser returns the Scenario
ParseReturn ==
  /\ pc = "parse"
  /\ node_index = Len(xml_root.node_els)
  /\ parse_outcome' = [kind |-> "scenario", nodes |-> parsed_nodes]
  /\ pc' = "parse_done"
  /\ UNCHANGED <<xml_root, node_index, parsed_nodes, renderVars, elimVars, aggVars, filterVars, cleanVars, corrVars, fromVars, catalogVars, inVars, fnVars, projVars, unionVars>>

NextParse == ParseNode \/ ParseReturn

SpecParse == InitParse /\ [][NextParse]_vars

\* some node element of the document carries no identifier
HasNodeWithoutIdentifier ==
  \E i \in DOMAIN xml_root.node_els :
    IF xml_root.dialect = "ColumnView"
    THEN ~Truthy(xml_root.node_els[i].name) /\ ~Truthy(xml_root.node_els[i].id)
    ELSE ~Truthy(xml_root.node_els[i].id)

\* C22: parsing a document of either dialect with a node element that has no
\* identifier ends in a parse error, never in a Scenario
C22_MissingIdFails ==
  (pc = "parse_done" /\ HasNodeWithoutIdentifier) => parse_outcome.kind = "error"

\* ---------------------------------------------------------------------------
\* Reference cleaning across the passes of render_scenario
\* ---------------------------------------------------------------------------
\* the reference strings the passes read: the inputs of the scenario's nodes
InputReferences(s) ==
  UNION {{s.inputs[n][i] : i \in 1..Len(s.inputs[n])} : n \in Nodes(s)}

\* C23: once a scenario is compiled, every reference string of a node's inputs
\* was reduced to the same identifier by dependency ordering (_topological_sort)
\* and by final-node detection and per-node rendering (lstrip of the marker)
C23_SameCleaning ==
  Compiled => \A input_id \in InputReferences(scenario) :
                 CleanInput(input_id) = LStripHash(input_id)

\* ---------------------------------------------------------------------------
\* function_translator._convert_in_function_to_operator: IN(expr, v1, v2)
\* becomes expr IN (v1, v2)
\* ---------------------------------------------------------------------------

\* r'\bIN\s*\(' under re.IGNORECASE
in_pattern == <<WordBoundary>> \o LitsI(<<"I", "N">>) \o <<Star(Ws)>> \o Lits(<<"(">>)

Backslash == "\\"

\* the scan for the matching closing parenthesis (lines 773-794) from 1-based
\* position p; returns the position it stopped at and the depth left
RECURSIVE FindClose(_, _, _, _, _)
FindClose(s, p, depth, in_quote, quote_char) ==
  IF p > Len(s) \/ depth <= 0 THEN [i |-> p, depth |-> depth]
  ELSE LET c == s[p]
           toggles == IsQuote(c) /\ (p = 1 \/ s[p - 1] # Backslash)
           opens == toggles /\ ~in_quote
           closes == toggles /\ in_quote /\ c = quote_char
           quoted == IF opens THEN TRUE ELSE IF closes THEN FALSE ELSE in_quote
           char == IF opens THEN c ELSE IF closes THEN None ELSE quote_char
           d == IF quoted THEN depth
                ELSE IF c = "(" THEN depth + 1
                ELSE IF c = ")" THEN depth - 1
                ELSE depth
       IN FindClose(s, p + 1, d, quoted, char)

\* the split of args_str at its top-level commas (lines 805-834)
RECURSIVE SplitInArgs(_, _, _, _, _, _, _)
SplitInArgs(args_str, j, paren_depth, in_quote, quote_char, current_arg, args) ==
  IF j > Len(args_str)
  THEN IF current_arg # <<>> THEN Append(args, Strip(current_arg)) ELSE args
  ELSE LET c == args_str[j]
           opens == IsQuote(c) /\ ~in_quote
           closes == IsQuote(c) /\ in_quote /\ c = quote_char
                       /\ (j = 1 \/ args_str[j - 1] # Backslash)
           quoted == IF opens THEN TRUE ELSE IF closes THEN FALSE ELSE in_quote
           char == IF opens THEN c ELSE IF closes THEN None ELSE quote_char
       IN IF ~quoted /\ c = "," /\ paren_depth = 0
          THEN SplitInArgs(args_str, j + 1, paren_depth, quoted, char, <<>>,
                           Append(args, Strip(current_arg)))
          ELSE SplitInArgs(args_str, j + 1,
                           IF quoted THEN paren_depth
                           ELSE IF c = "(" THEN paren_depth + 1
                           ELSE IF c = ")" THEN paren_depth - 1
                           ELSE paren_depth,
                           quoted, char, Append(current_arg, c), args)

\* ', '.join(values)
RECURSIVE JoinComma(_)
JoinComma(values) ==
  IF values = <<>> THEN <<>>
  ELSE IF Len(values) = 1 THEN values[1]
  ELSE values[1] \o <<",", " ">> \o JoinComma(Tail(values))

\* f"{expression} IN ({values_list})"
InReplacement(args) ==
  args[1] \o <<" ", "I", "N", " ", "(">> \o JoinComma(Tail(args)) \o <<")">>

\* the rest of a round once IN( was found at in_start..in_end (0-based, as in
\* the code) and the scan stopped at i with the parentheses balanced
InRewrite(res, in_start, in_end, i) ==
  \* close_paren = i - 1; args_str = result[in_end:close_paren]
  LET args == SplitInArgs(SubSeq(res, in_end + 1, i - 1), 1, 0, FALSE, None, <<>>, <<>>)
  IN IF Len(args) < 2 THEN [stop |-> TRUE, result |-> res, search_start |-> 0]
     ELSE [stop |-> FALSE,
           result |-> Take(res, in_start) \o InReplacement(args) \o Drop(res, i),
           search_start |-> in_start + Len(InReplacement(args))]

InScan(res, in_start, in_end) ==
  \* the scan works on 0-based i; FindClose on the 1-based position i + 1
  LET scan == FindClose(res, in_end + 1, 1, FALSE, None)
  IN IF scan.depth # 0 THEN [stop |-> TRUE, result |-> res, search_start |-> 0]
     ELSE InRewrite(res, in_start, in_end, scan.i - 1)

\* one round of the loop (lines 761-857): stop when it breaks
InStep(res, start) ==
  LET match == re_search(in_pattern, Drop(res, start))
  IN IF match = NoMatch THEN [stop |-> TRUE, result |-> res, search_start |-> start]
     ELSE InScan(res, start + match.start - 1, start + match.end - 1)

InOperands == {<<"a">>, <<"f", "(", "b", ")">>, <<"'", "x", ",", "y", "'">>, <<"'", "(", "'">>}

InValues == {<<"1">>, <<"'", "c", "'">>, <<"g", "(", "2", ")">>}

MaxInValues == 2

InPrefixes == {<<>>, <<"x", " ", "A", "N", "D", " ">>}

\* IN(expr, v1, v2) as the XML spells it, expr IN (v1, v2) as HANA wants it
InFunctionForm(expr, values) == <<"I", "N", "(">> \o JoinComma(<<expr>> \o values) \o <<")">>

InOperatorForm(expr, values) == InReplacement(<<expr>> \o values)

InFormulas ==
  {p \o t : p \in InPrefixes,
            t \in UNION {{InFunctionForm(e, v), InOperatorForm(e, v)} :
                           e \in InOperands, v \in SeqsUpTo(InValues, MaxInValues) \ {<<>>}}}

InitIn ==
  /\ pc = "in_loop"
  /\ in_text \in InFormulas
  /\ in_result = in_text
  /\ search_start = 0
  /\ in_iteration = 0
  /\ in_outputs = <<>>
  /\ scenario = [node_ids |-> <<>>] /\ ordered = <<>> /\ ctes = <<>> /\ cte_aliases = <<>>
  /\ warnings = <<>> /\ outcome = [kind |-> "none"]
  /\ formula = <<>> /\ result = <<>> /\ iteration = 0 /\ outputs = <<>>
  /\ aggNode = [kind |-> "none"] /\ select_items = <<>> /\ group_by_cols = <<>> /\ outer_select = <<>>
  /\ FiltersIdle
  /\ CleanIdle
  /\ CorrectorIdle
  /\ FromIdle
  /\ CatalogIdle
  /\ ParseIdle
  /\ FnIdle
  /\ ProjIdle
  /\ UnionIdle

\* a round of the loop that rewrites one IN(...)
InRound ==
  /\ pc = "in_loop"
  /\ in_iteration < max_iterations
  /\ \E step \in {InStep(in_result, search_start)} :
       /\ ~step.stop
       /\ in_result' = step.result
       /\ search_start' = step.search_start
  /\ in_iteration' = in_iteration + 1
  /\ UNCHANGED <<pc, in_text, in_outputs>>
  /\ UNCHANGED <<renderVars, elimVars, aggVars, filterVars, cleanVars, corrVars, fromVars, catalogVars, parseVars, fnVars, projVars, unionVars>>

\* the loop ends (no IN( left, unbalanced, fewer than two arguments, or the
\* round limit) and the function returns result
InReturn ==
  /\ pc = "in_loop"
  /\ in_iteration = max_iterations \/ InStep(in_result, search_start).stop
  /\ in_outputs' = Append(in_outputs, in_result)
  /\ pc' = "in_returned"
  /\ UNCHANGED <<in_text, in_result, search_start, in_iteration>>
  /\ UNCHANGED <<renderVars, elimVars, aggVars, filterVars, cleanVars, corrVars, fromVars, catalogVars, parseVars, fnVars, projVars, unionVars>>

\* the function is applied to what it returned
InApplyAgain ==
  /\ pc = "in_returned" /\ Len(in_outputs) = 1
  /\ in_result' = in_outputs[1]
  /\ search_start' = 0 /\ in_iteration' = 0
  /\ pc' = "in_loop"
  /\ UNCHANGED <<in_text, in_outputs>>
  /\ UNCHANGED <<renderVars, elimVars, aggVars, filterVars, cleanVars, corrVars, fromVars, catalogVars, parseVars, fnVars, projVars, unionVars>>

NextIn == InRound \/ InReturn \/ InApplyAgain

SpecIn == InitIn /\ [][NextIn]_vars

\* C24: the IN-fold rewrite applied to its own output returns it unchanged
C24_InFoldIdempotent ==
  Len(in_outputs) = 2 => in_outputs[2] = in_outputs[1]

\* ---------------------------------------------------------------------------
\* function_translator._rewrite_function_calls with _extract_function_arguments
\* and _split_arguments: the catalog rewrite of a legacy helper call
\* ---------------------------------------------------------------------------

MaxArgs == 2

\* a rule of the function catalog with the rename handler
RenameRule == [name |-> <<"L", "E", "F", "T", "S", "T", "R">>, handler |-> "rename",
               target |-> <<"L", "E", "F", "T">>]

\* rf"\b{re.escape(rule.name)}\s*\(" under re.IGNORECASE
call_pattern(rule) == <<WordBoundary>> \o LitsI(rule.name) \o <<Star(Ws)>> \o Lits(<<"(">>)

\* "".join(current).strip(), appended to args when not empty
AppendArgument(args, current) ==
  IF Strip(current) # <<>> THEN Append(args, Strip(current)) ELSE args

\* _split_arguments, from 1-based position idx
RECURSIVE SplitArguments(_, _, _, _, _, _)
SplitArguments(arg_string, idx, depth, in_quote, current, args) ==
  IF idx > Len(arg_string) THEN AppendArgument(args, current)
  ELSE LET ch == arg_string[idx]
       IN IF ch = "'"
          THEN IF in_quote /\ idx + 1 <= Len(arg_string) /\ arg_string[idx + 1] = "'"
               THEN SplitArguments(arg_string, idx + 2, depth, in_quote,
                                   current \o <<"'", "'">>, args)
               ELSE SplitArguments(arg_string, idx + 1, depth, ~in_quote,
                                   Append(current, ch), args)
          ELSE IF ~in_quote /\ ch = "," /\ depth = 0
               THEN SplitArguments(arg_string, idx + 1, depth, in_quote, <<>>,
                                   AppendArgument(args, current))
          ELSE SplitArguments(arg_string, idx + 1,
                              IF in_quote THEN depth
                              ELSE IF ch = "(" THEN depth + 1
                              ELSE IF ch = ")" THEN (IF depth - 1 > 0 THEN depth - 1 ELSE 0)
                              ELSE depth,
                              in_quote, Append(current, ch), args)

_split_arguments(arg_string) == SplitArguments(arg_string, 1, 0, FALSE, <<>>, <<>>)

Unbalanced == [close_index |-> -1, args |-> None, balanced |-> FALSE]

\* the loop of _extract_function_arguments at 0-based index i
RECURSIVE ExtractLoop(_, _, _, _)
ExtractLoop(text, i, depth, args_start) ==
  IF i >= Len(text) THEN Unbalanced
  ELSE IF text[i + 1] = "(" THEN ExtractLoop(text, i + 1, depth + 1, args_start)
  ELSE IF text[i + 1] = ")"
       THEN IF depth - 1 = 0
            THEN [close_index |-> i + 1,
                  args |-> _split_arguments(SubSeq(text, args_start + 1, i)),
                  balanced |-> TRUE]
            ELSE ExtractLoop(text, i + 1, depth - 1, args_start)
  ELSE ExtractLoop(text, i + 1, depth, args_start)

_extract_function_arguments(text, open_paren_index) ==
  ExtractLoop(text, open_paren_index, 0, open_paren_index + 1)

\* _build_replacement for the rename handler: f"{rule.target}({', '.join(args)})"
_build_replacement(rule, args) == rule.target \o <<"(">> \o JoinComma(args) \o <<")">>

\* the arguments a call is written with: a column, string literals (with
\* parentheses, with a doubled quote), a nested call
CallArguments ==
  {<<"a">>, <<"'", "b", "'">>, <<"'", "(", "'">>, <<"'", "a", ")", "b", "'">>,
   <<"f", "(", "x", ")">>, <<"'", "i", "'", "'", "s", "'">>}

CallSuffixes == {<<>>, <<" ", "+", " ", "1">>}

CallText(rule, args) == rule.name \o <<"(">> \o JoinComma(args) \o <<")">>

InitRewrite ==
  /\ pc = "rewrite_loop"
  /\ fn_args \in SeqsUpTo(CallArguments, MaxArgs) \ {<<>>}
  /\ fn_formula \in {CallText(RenameRule, fn_args) \o suffix : suffix \in CallSuffixes}
  /\ fn_pos = 0
  /\ fn_parts = <<>>
  /\ fn_extracted = <<>>
  /\ fn_result = <<>>
  /\ scenario = [node_ids |-> <<>>] /\ ordered = <<>> /\ ctes = <<>> /\ cte_aliases = <<>>
  /\ warnings = <<>> /\ outcome = [kind |-> "none"]
  /\ formula = <<>> /\ result = <<>> /\ iteration = 0 /\ outputs = <<>>
  /\ aggNode = [kind |-> "none"] /\ select_items = <<>> /\ group_by_cols = <<>> /\ outer_select = <<>>
  /\ FiltersIdle
  /\ CleanIdle
  /\ CorrectorIdle
  /\ FromIdle
  /\ CatalogIdle
  /\ ParseIdle
  /\ InIdle
  /\ ProjIdle
  /\ UnionIdle

\* pattern.search(formula, pos), positions 1-based
NextCall == SearchAlt(<<call_pattern(RenameRule)>>, fn_formula, fn_pos + 1)

\* a round of the loop that found a call: call_start = match.start - 1 and
\* open_paren_index = match.end - 2 in the 0-based counting of the code
RewriteCall ==
  /\ pc = "rewrite_loop"
  /\ \E match \in {NextCall} :
       /\ match # NoMatch
       /\ \E ex \in {_extract_function_arguments(fn_formula, match.end - 2)} :
            /\ fn_extracted' = Append(fn_extracted, ex)
            /\ IF ~ex.balanced
               THEN /\ fn_parts' = Append(fn_parts, SubSeq(fn_formula, fn_pos + 1, match.end - 1))
                    /\ fn_pos' = match.end - 1
               ELSE /\ fn_parts' = fn_parts \o <<SubSeq(fn_formula, fn_pos + 1, match.start - 1),
                                                 _build_replacement(RenameRule, ex.args)>>
                    /\ fn_pos' = ex.close_index
  /\ UNCHANGED <<pc, fn_args, fn_formula, fn_result>>
  /\ UNCHANGED <<renderVars, elimVars, aggVars, filterVars, cleanVars, corrVars, fromVars, catalogVars, parseVars, inVars, projVars, unionVars>>

\* no call is left: the rest of the formula is kept and the parts are joined
RewriteReturn ==
  /\ pc = "rewrite_loop"
  /\ NextCall = NoMatch
  /\ fn_parts' = Append(fn_parts, Drop(fn_formula, fn_pos))
  /\ fn_result' = Flatten(fn_parts')
  /\ pc' = "rewritten"
  /\ UNCHANGED <<fn_args, fn_formula, fn_pos, fn_extracted>>
  /\ UNCHANGED <<renderVars, elimVars, aggVars, filterVars, cleanVars, corrVars, fromVars, catalogVars, parseVars, inVars, projVars, unionVars>>

NextRewrite == RewriteCall \/ RewriteReturn

SpecRewrite == InitRewrite /\ [][NextRewrite]_vars

IsStringLiteral(arg) == Len(arg) >= 2 /\ arg[1] = "'" /\ arg[Len(arg)] = "'"

HasParenthesis(arg) == \E i \in DOMAIN arg : arg[i] \in {"(", ")"}

\* C25: when an argument of the rewritten call is a string literal that holds
\* a parenthesis, the call is ended at its true closing parenthesis and its
\* arguments are the ones it was written with, the literal among them
C25_QuoteAwareExtraction ==
  (pc = "rewritten"
     /\ \E i \in DOMAIN fn_args : IsStringLiteral(fn_args[i]) /\ HasParenthesis(fn_args[i]))
  => /\ fn_extracted[1].close_index = Len(CallText(RenameRule, fn_args))
     /\ fn_extracted[1].args = fn_args

\* ---------------------------------------------------------------------------
\* _render_projection: mapped columns and calculated attributes (Snowflake
\* mode, a node that reads the data source)
\* ---------------------------------------------------------------------------

MaxCalcAttributes == 2

\* what _render_from returned for the node's input
from_clause == SchemaName \o <<".">> \o ObjectName

\* rf'"{re.escape(name)}"', used under re.IGNORECASE
QuotedPattern(name) == Lits(<<"\"">>) \o LitsI(name) \o Lits(<<"\"">>)

\* the position of the quote that closes the one at i: the next quote, when
\* at least one character lies between them; 0 otherwise
ClosingQuote(s, i) ==
  IF \E j \in (i + 1)..Len(s) : s[j] = "\""
  THEN LET j == Find(s, "\"", i + 1) IN IF j >= i + 2 THEN j ELSE 0
  ELSE 0

\* _translate_column_references: re.sub(r'"([^"]+)"', upper-cased, formula)
RECURSIVE UpperQuotedFrom(_, _)
UpperQuotedFrom(s, i) ==
  IF i > Len(s) THEN <<>>
  ELSE IF s[i] = "\"" /\ ClosingQuote(s, i) # 0
       THEN UpperSeq(SubSeq(s, i, ClosingQuote(s, i))) \o UpperQuotedFrom(s, ClosingQuote(s, i) + 1)
  ELSE <<s[i]>> \o UpperQuotedFrom(s, i + 1)

_translate_column_references(f) == UpperQuotedFrom(f, 1)

\* result.strip('"')
RECURSIVE StripQuotes(_)
StripQuotes(s) ==
  IF s # <<>> /\ Head(s) = "\"" THEN StripQuotes(Tail(s))
  ELSE IF s # <<>> /\ s[Len(s)] = "\"" THEN StripQuotes(Take(s, Len(s) - 1))
  ELSE s

\* str.isidentifier() on the characters of the model
IsIdentifier(s) ==
  /\ s # <<>>
  /\ IsAlpha(s[1]) \/ s[1] = "_"
  /\ \A i \in DOMAIN s : IsAlnum(s[i]) \/ s[i] = "_"

\* _render_expression for a RAW expression whose formula holds quoted column
\* names, numbers, * and -: of the passes of translate_raw_formula only
\* _translate_column_references changes such a text
RenderRaw(f, table_alias) ==
  IF f = <<>> THEN <<"N", "U", "L", "L">>
  ELSE IF _translate_column_references(f) # f THEN _translate_column_references(f)
  ELSE IF table_alias # None /\ IsIdentifier(StripQuotes(f)) /\ "(" \notin Range(f)
       THEN table_alias \o <<".">> \o f
  ELSE f

\* the loop over calc_column_map (lines 424-427): references to calculated
\* columns rendered before are replaced by their expression in parentheses
RECURSIVE ExpandCalculated(_, _)
ExpandCalculated(f, cmap) ==
  IF cmap = <<>> THEN f
  ELSE ExpandCalculated(re_sub(QuotedPattern(cmap[1][1]), <<"(">> \o cmap[1][2] \o <<")">>, f),
                        Tail(cmap))

\* the loop over target_sql_map (lines 429-432)
RECURSIVE ExpandMapped(_, _)
ExpandMapped(f, tmap) ==
  IF tmap = <<>> THEN f
  ELSE ExpandMapped(re_sub(QuotedPattern(tmap[1][1]), tmap[1][2], f), Tail(tmap))

\* target_sql_map after the loop over node.mappings (lines 405-408)
RECURSIVE TargetSqlMap(_, _)
TargetSqlMap(mappings, tmap) ==
  IF mappings = <<>> THEN tmap
  ELSE TargetSqlMap(Tail(mappings),
                    Put(tmap, UpperSeq(mappings[1].target_name),
                        _render_column_ref(mappings[1].source, from_clause)))

MappedColumns(mappings) ==
  [i \in DOMAIN mappings |->
     [expr |-> _render_column_ref(mappings[i].source, from_clause),
      name |-> mappings[i].target_name]]

ProjectionMappings == {<<>>, <<[target_name |-> <<"X">>, source |-> <<"S", "R", "C">>]>>}

CalcNames == {<<"C", "1">>, <<"C", "2">>}

\* "X", "X" * 2, "C1" - 1, "C2" * 2, "c1" - 1
CalcFormulas ==
  {<<"\"", "X", "\"">>,
   <<"\"", "X", "\"", " ", "*", " ", "2">>,
   <<"\"", "C", "1", "\"", " ", "-", " ", "1">>,
   <<"\"", "C", "2", "\"", " ", "*", " ", "2">>,
   <<"\"", "c", "1", "\"", " ", "-", " ", "1">>}

RefersTo(text, name) == re_search(QuotedPattern(name), text) # NoMatch

\* node.calculated_attributes, a dict in declaration order: distinct names, no
\* attribute defined by itself, no two attributes defined by each other
CalculatedAttributes ==
  {q \in SeqsUpTo(CalcNames \X CalcFormulas, MaxCalcAttributes) :
     /\ \A i, j \in DOMAIN q : q[i][1] = q[j][1] => i = j
     /\ \A i \in DOMAIN q : ~RefersTo(q[i][2], q[i][1])
     /\ \A i, j \in DOMAIN q : ~(RefersTo(q[i][2], q[j][1]) /\ RefersTo(q[j][2], q[i][1]))}

InitProj ==
  /\ pc = "proj_loop"
  /\ proj_node \in [mappings : ProjectionMappings, calculated_attributes : CalculatedAttributes]
  /\ calc_done = 0
  /\ proj_columns = MappedColumns(proj_node.mappings)
  /\ calc_column_map = <<>>
  /\ scenario = [node_ids |-> <<>>] /\ ordered = <<>> /\ ctes = <<>> /\ cte_aliases = <<>>
  /\ warnings = <<>> /\ outcome = [kind |-> "none"]
  /\ formula = <<>> /\ result = <<>> /\ iteration = 0 /\ outputs = <<>>
  /\ aggNode = [kind |-> "none"] /\ select_items = <<>> /\ group_by_cols = <<>> /\ outer_select = <<>>
  /\ FiltersIdle
  /\ CleanIdle
  /\ CorrectorIdle
  /\ FromIdle
  /\ CatalogIdle
  /\ ParseIdle
  /\ InIdle
  /\ FnIdle
  /\ UnionIdle

\* one round of the loop over node.calculated_attributes (lines 414-446)
RenderCalculated ==
  /\ pc = "proj_loop"
  /\ calc_done < Len(proj_node.calculated_attributes)
  /\ \E attr \in {proj_node.calculated_attributes[calc_done + 1]} :
       \E calc_expr \in {RenderRaw(ExpandMapped(ExpandCalculated(attr[2], calc_column_map),
                                                TargetSqlMap(proj_node.mappings, <<>>)),
                                   from_clause)} :
         /\ proj_columns' = Append(proj_columns, [expr |-> calc_expr, name |-> attr[1]])
         /\ calc_column_map' = Put(calc_column_map, UpperSeq(attr[1]), calc_expr)
  /\ calc_done' = calc_done + 1
  /\ UNCHANGED <<pc, proj_node>>
  /\ UNCHANGED <<renderVars, elimVars, aggVars, filterVars, cleanVars, corrVars, fromVars, catalogVars, parseVars, inVars, fnVars, unionVars>>

\* the loop is over: the select list is complete ("*" when it is empty)
ProjectionRendered ==
  /\ pc = "proj_loop"
  /\ calc_done = Len(proj_node.calculated_attributes)
  /\ proj_columns' = IF proj_columns = <<>> THEN <<[expr |-> <<"*">>, name |-> None]>>
                     ELSE proj_columns
  /\ pc' = "proj_rendered"
  /\ UNCHANGED <<proj_node, calc_done, calc_column_map>>
  /\ UNCHANGED <<renderVars, elimVars, aggVars, filterVars, cleanVars, corrVars, fromVars, catalogVars, parseVars, inVars, fnVars, unionVars>>

NextProj == RenderCalculated \/ ProjectionRendered

SpecProj == InitProj /\ [][NextProj]_vars

\* C26: in a rendered projection no calculated-column expression refers by
\* name to another calculated column of the node, whatever the order in which
\* the calculated attributes are declared
C26_CalculatedExpanded ==
  pc = "proj_rendered" =>
    \A i, j \in DOMAIN calc_column_map :
      i # j => ~RefersTo(calc_column_map[i][2], calc_column_map[j][1])

\* ---------------------------------------------------------------------------
\* _render_union (Snowflake mode, inputs that are nodes of the scenario)
\* ---------------------------------------------------------------------------

MaxUnionMappings == 3

UnionInputs == { << <<"n1">> >>, << <<"n1">>, <<"n2">> >> }

\* an AttributeMapping of a union: target column, the input it comes from,
\* and a COLUMN expression over the column of the same name
UnionMappings ==
  [target_name : {<<"A">>, <<"B">>}, source_node : {<<"n1">>, <<"n2">>}]

UnionNodes == [inputs : UnionInputs, mappings : SeqsUpTo(UnionMappings, MaxUnionMappings)]

\* list(dict.fromkeys(...)): the first occurrence of each element, in order
RECURSIVE Dedup(_, _)
Dedup(s, seen) ==
  IF s = <<>> THEN <<>>
  ELSE IF Head(s) \in seen THEN Dedup(Tail(s), seen)
  ELSE <<Head(s)>> \o Dedup(Tail(s), seen \cup {Head(s)})

\* target_columns (line 827)
target_columns(node) ==
  Dedup([i \in DOMAIN node.mappings |-> node.mappings[i].target_name], {})

\* input_mappings (line 833)
input_mappings(node, input_id) ==
  SelectSeq(node.mappings, LAMBDA m : LStripHash(m.source_node) = input_id)

\* the select item of a branch for target_col (lines 837-842): next(...) takes
\* the first mapping of the input with that target
UnionSelectItem(maps, target_col, input_alias) ==
  IF \E i \in DOMAIN maps : maps[i].target_name = target_col
  THEN [expr |-> _render_column_ref(target_col, input_alias), name |-> target_col]
  ELSE [expr |-> NullLiteral, name |-> target_col]

\* the select list of the branch of input_id; <<>> stands for "*"
UnionSelectItems(node, input_id, input_alias) ==
  IF input_mappings(node, input_id) # <<>> /\ target_columns(node) # <<>>
  THEN [k \in DOMAIN target_columns(node) |->
          UnionSelectItem(input_mappings(node, input_id), target_columns(node)[k], input_alias)]
  ELSE <<>>

InitUnion ==
  /\ pc = "union_start"
  /\ union_node \in UnionNodes
  /\ union_done = 0
  /\ union_queries = <<>>
  /\ scenario = [node_ids |-> <<>>] /\ ordered = <<>> /\ ctes = <<>> /\ cte_aliases = <<>>
  /\ warnings = <<>> /\ outcome = [kind |-> "none"]
  /\ formula = <<>> /\ result = <<>> /\ iteration = 0 /\ outputs = <<>>
  /\ aggNode = [kind |-> "none"] /\ select_items = <<>> /\ group_by_cols = <<>> /\ outer_select = <<>>
  /\ FiltersIdle
  /\ CleanIdle
  /\ CorrectorIdle
  /\ FromIdle
  /\ CatalogIdle
  /\ ParseIdle
  /\ InIdle
  /\ FnIdle
  /\ ProjIdle

\* fewer than two inputs: a warning and the placeholder query
UnionPlaceholder ==
  /\ pc = "union_start"
  /\ Len(union_node.inputs) < 2
  /\ warnings' = Append(warnings, <<"UNION_FEWER_THAN_2_INPUTS">>)
  /\ pc' = "union_placeholder"
  /\ UNCHANGED <<union_node, union_done, union_queries, scenario, ordered, ctes, cte_aliases, outcome>>
  /\ UNCHANGED <<elimVars, aggVars, filterVars, cleanVars, corrVars, fromVars, catalogVars, parseVars, inVars, fnVars, projVars>>

\* one round of the loop over node.inputs (lines 829-847)
RenderBranch ==
  /\ pc \in {"union_start", "union_loop"}
  /\ Len(union_node.inputs) >= 2
  /\ union_done < Len(union_node.inputs)
  /\ \E input_id \in {LStripHash(union_node.inputs[union_done + 1])} :
       /\ cte_aliases' = get_cte_alias(cte_aliases, input_id)
       /\ union_queries' =
            Append(union_queries,
                   [select |-> UnionSelectItems(union_node, input_id, AliasOf(cte_aliases, input_id)),
                    from |-> AliasOf(cte_aliases, input_id)])
  /\ union_done' = union_done + 1
  /\ pc' = "union_loop"
  /\ UNCHANGED <<union_node, scenario, ordered, ctes, warnings, outcome>>
  /\ UNCHANGED <<elimVars, aggVars, filterVars, cleanVars, corrVars, fromVars, catalogVars, parseVars, inVars, fnVars, projVars>>

\* the loop is over: the branches are joined with UNION ALL
UnionRendered ==
  /\ pc = "union_loop"
  /\ union_done = Len(union_node.inputs)
  /\ pc' = "union_rendered"
  /\ UNCHANGED <<union_node, union_done, union_queries, renderVars>>
  /\ UNCHANGED <<elimVars, aggVars, filterVars, cleanVars, corrVars, fromVars, catalogVars, parseVars, inVars, fnVars, projVars>>

NextUnion == UnionPlaceholder \/ RenderBranch \/ UnionRendered

SpecUnion == InitUnion /\ [][NextUnion]_vars

\* the target columns the mappings of the first input name, in order
FirstInputTargets(node) ==
  Dedup([i \in DOMAIN input_mappings(node, LStripHash(node.inputs[1])) |->
           input_mappings(node, LStripHash(node.inputs[1]))[i].target_name], {})

\* C27: every branch of a rendered union selects the first input's target
\* columns, by name and in that order, and NULL stands for exactly the columns
\* the input of the branch does not map
C27_BranchesAligned ==
  pc = "union_rendered" =>
    \A b \in DOMAIN union_queries :
      /\ [k \in DOMAIN union_queries[b].select |-> union_queries[b].select[k].name]
           = FirstInputTargets(union_node)
      /\ \A k \in DOMAIN union_queries[b].select :
           (union_queries[b].select[k].expr = NullLiteral)
             <=> ~\E i \in DOMAIN union_node.mappings :
                    /\ LStripHash(union_node.mappings[i].source_node)
                         = LStripHash(union_node.inputs[b])
                    /\ union_node.mappings[i].target_name = union_queries[b].select[k].name

\* ------------------------------------------------------------------------
\* scenario_parser._parse_nodes on inputs that name a table or a view
\* (<input alias="t1"><entity>...</entity></input>), followed by
\* render_scenario on the scenario it builds
\* ------------------------------------------------------------------------
MaxInputElements == 2

\* alias attribute of an <input> element
InputAliases == {<<"t1">>, <<"t2">>}

\* f"_synthetic_proj_{alias}" (line 184)
SyntheticNodeId(alias) ==
  IF alias = <<"t1">> THEN <<"_synthetic_proj_t1">> ELSE <<"_synthetic_proj_t2">>

\* an <input> element: a node attribute, or an <entity> child that names a
\* calculation view ("pkg::CV_X") or a plain table ("SCHEMA.T"); no
\* <mapping> children
InputElements ==
  {[node |-> <<"#">> \o n, entity |-> "none", alias |-> <<>>] : n \in {<<"n1">>, <<"n2">>}}
    \cup {[node |-> <<>>, entity |-> e, alias |-> a] : e \in {"cv", "table"}, a \in InputAliases}

\* the <calculationView> elements of a document: ids n1, n2 in that order,
\* with at most MaxInputElements <input> elements in all
CalculationViews ==
  {[i \in 1..Len(ids) |-> [id |-> ids[i], input_els |-> inp[i]]] :
     ids \in {<< <<"n1">> >>, << <<"n1">>, <<"n2">> >>},
     inp \in {f \in [1..2 -> SeqsUpTo(InputElements, MaxInputElements)] :
               Len(f[1]) + Len(f[2]) <= MaxInputElements}}

\* the documents: the node elements and the id of the logical model
ScenarioDocuments ==
  [dialect : {"scenario"}, node_els : CalculationViews, base_node_id : {None, <<"n1">>}]

\* the scenario under construction: data sources, and the node map as a list
\* of <<node_id, inputs>> in insertion order
EmptyScenario == [data_sources |-> {}, nodes |-> <<>>, failed |-> FALSE]

RECURSIVE ParseInputs(_, _, _)
\* the loop over the <input> elements of one node (lines 156-236): the
\* scenario after it and the inputs collected
ParseInputs(sc, input_els, inputs) ==
  IF input_els = <<>> \/ sc.failed THEN [sc |-> sc, inputs |-> inputs]
  ELSE LET inp == Head(input_els)
           synthetic_node_id == SyntheticNodeId(inp.alias)
       IN IF inp.node # <<>>
          THEN ParseInputs(sc, Tail(input_els), Append(inputs, _clean_ref(inp.node)))
          ELSE IF synthetic_node_id \notin sc.data_sources /\ inp.entity = "table"
               \* DataSourceType.DATA_BASE_TABLE does not exist: AttributeError
               THEN [sc |-> [sc EXCEPT !.failed = TRUE], inputs |-> inputs]
          ELSE ParseInputs(
                 [sc EXCEPT !.data_sources = @ \cup {synthetic_node_id},
                            !.nodes = Put(@, synthetic_node_id, << synthetic_node_id >>)],
                 Tail(input_els), Append(inputs, synthetic_node_id))

RECURSIVE ParseNodes(_, _)
\* _parse_nodes: the loop over the <calculationView> elements
ParseNodes(sc, node_els) ==
  IF node_els = <<>> \/ sc.failed THEN sc
  ELSE LET r == ParseInputs(sc, Head(node_els).input_els, <<>>)
       IN IF r.sc.failed THEN r.sc
          ELSE ParseNodes([r.sc EXCEPT !.nodes = Put(@, Head(node_els).id, r.inputs)], Tail(node_els))

\* the Scenario object parse_scenario returns
ParsedScenario(doc) ==
  LET sc == ParseNodes(EmptyScenario, doc.node_els)
  IN [data_sources |-> sc.data_sources,
      node_ids |-> Keys(sc.nodes),
      inputs |-> [n \in Range(Keys(sc.nodes)) |-> Get(sc.nodes, n)],
      kind |-> [n \in Range(Keys(sc.nodes)) |-> [kind |-> "PROJECTION", conditions |-> 0]],
      base_node_id |-> doc.base_node_id]

InitEntity ==
  /\ pc = "parse_entities"
  /\ xml_root \in ScenarioDocuments
  /\ node_index = 0
  /\ parsed_nodes = <<>>
  /\ parse_outcome = [kind |-> "none"]
  /\ scenario = [node_ids |-> <<>>] /\ ordered = <<>> /\ ctes = <<>> /\ cte_aliases = <<>>
  /\ warnings = <<>> /\ outcome = [kind |-> "none"]
  /\ formula = <<>> /\ result = <<>> /\ iteration = 0 /\ outputs = <<>>
  /\ aggNode = [kind |-> "none"] /\ select_items = <<>> /\ group_by_cols = <<>> /\ outer_select = <<>>
  /\ FiltersIdle
  /\ CleanIdle
  /\ CorrectorIdle
  /\ FromIdle
  /\ CatalogIdle
  /\ InIdle
  /\ FnIdle
  /\ ProjIdle
  /\ UnionIdle

\* parse_scenario returns the scenario
ParseEntityScenario ==
  /\ pc = "parse_entities"
  /\ ~ParseNodes(EmptyScenario, xml_root.node_els).failed
  /\ scenario' = ParsedScenario(xml_root)
  /\ parse_outcome' = [kind |-> "ok"]
  /\ pc' = "start"
  /\ UNCHANGED <<ordered, ctes, cte_aliases, warnings, outcome, xml_root, node_index, parsed_nodes,
                 elimVars, aggVars, filterVars, cleanVars, corrVars, fromVars, catalogVars, inVars, fnVars, projVars, unionVars>>

\* parse_scenario raises AttributeError on an entity that is a plain table
ParseEntityFails ==
  /\ pc = "parse_entities"
  /\ ParseNodes(EmptyScenario, xml_root.node_els).failed
  /\ parse_outcome' = [kind |-> "error", error |-> "AttributeError"]
  /\ pc' = "parse_failed"
  /\ UNCHANGED <<scenario, ordered, ctes, cte_aliases, warnings, outcome, xml_root, node_index, parsed_nodes,
                 elimVars, aggVars, filterVars, cleanVars, corrVars, fromVars, catalogVars, inVars, fnVars, projVars, unionVars>>

NextEntity == ParseEntityScenario \/ ParseEntityFails \/ TopologicalSort \/ RenderNodes \/ RenderScenario

SpecEntity == InitEntity /\ [][NextEntity]_vars

\* the CTEs the node loop emitted for node n
CtesOf(n) == {i \in DOMAIN ctes : ctes[i].node = n}

\* C28: when the node loop of render_scenario is through, every node of the
\* scenario's node map has exactly one CTE, and no CTE belongs to an id that
\* is only a data source.
C28_OneCtePerNode ==
  pc = "rendered" =>
    /\ \A n \in Nodes(scenario) : Cardinality(CtesOf(n)) = 1
    /\ \A i \in DOMAIN ctes : ctes[i].node \in Nodes(scenario)

\* ------------------------------------------------------------------------
\* The FROM item of the final SELECT (render_scenario lines 161-262)
\* ------------------------------------------------------------------------
\* rendering has returned a statement, called directly or by the converter
SqlReturned == pc \in {"done", "done_unvalidated", "converted"} /\ outcome.kind = "sql"

\* the names of the WITH list, as the database compares them
WithNames == {UpperSeq(ctes[i].alias) : i \in DOMAIN ctes}

\* C29: in every statement rendering returns, the final SELECT reads from a
\* CTE of the statement's WITH list or from a table reference of one of the
\* scenario's data sources, also when the terminal node was not rendered.
C29_FinalFromDefined ==
  SqlReturned =>
    IF outcome.final_from.kind = "table"
    THEN outcome.final_from.name \in scenario.data_sources
    ELSE UpperSeq(outcome.final_from.name) \in WithNames

\* ------------------------------------------------------------------------
\* The names of the WITH list (RenderContext.get_cte_alias, lines 75-88)
\* ------------------------------------------------------------------------
\* the keys of scenario.nodes differ pairwise
DistinctNodeIds ==
  \A i, j \in DOMAIN scenario.node_ids : scenario.node_ids[i] = scenario.node_ids[j] => i = j

\* C30: in a statement rendered for a scenario whose node ids are pairwise
\* distinct, no two CTEs of the WITH list have the same name.
C30_DistinctCteNames ==
  (SqlReturned /\ DistinctNodeIds) =>
    \A i, j \in DOMAIN ctes : ctes[i].alias = ctes[j].alias => i = j

====
